---- MODULE Spec2Model ----
(***************************************************************************)
(* The PDF extraction core of tender-dashboard:                            *)
(*   - TenderPDFExtractor.extract        (src/tender_pdf_extractor.py)     *)
(*   - extract_building_rights           (src/building_rights_extractor.py)*)
(*                                                                         *)
(* A Python str is a sequence of one-character strings.  Hebrew letters    *)
(* are written in a fixed Latin transliteration, one character each:      *)
(*   A=alef b=bet g=gimel d=dalet h=he w=vav z=zayin H=het T=tet y=yod     *)
(*   k=kaf K=final kaf l=lamed m=mem M=final mem n=nun N=final nun         *)
(*   s=samekh E=ayin p=pe P=final pe c=tsadi C=final tsadi q=qof r=resh    *)
(*   S=shin t=tav                                                          *)
(* Python's None is the value None below; it differs from every str.       *)
(***************************************************************************)
EXTENDS Integers, Sequences, FiniteSets, TLC

None == <<"None">>

Digits == {"0", "1", "2", "3", "4", "5", "6", "7", "8", "9"}

HebrewLetters ==
    {"A", "b", "g", "d", "h", "w", "z", "H", "T", "y", "k", "K", "l", "m",
     "M", "n", "N", "s", "E", "p", "P", "c", "C", "q", "r", "S", "t"}

\* str.isspace for the characters of the model
Whitespace == {" ", "\n"}

----------------------------------------------------------------------------
(* Python str primitives *)

Min(a, b) == IF a < b THEN a ELSE b

Reverse(s) == [i \in 1..Len(s) |-> s[Len(s) + 1 - i]]

\* s[i:] starts with sub (1-based i)
StartsAt(s, sub, i) ==
    /\ i >= 1
    /\ i + Len(sub) - 1 <= Len(s)
    /\ SubSeq(s, i, i + Len(sub) - 1) = sub

\* sub in s
Contains(s, sub) == \E i \in 1..(Len(s) - Len(sub) + 1) : StartsAt(s, sub, i)

\* s.find(sub, from): least index >= from where sub occurs, 0 when none
FindFrom(s, sub, from) ==
    LET hits == {i \in from..(Len(s) - Len(sub) + 1) : StartsAt(s, sub, i)}
    IN  IF hits = {} THEN 0 ELSE CHOOSE i \in hits : \A j \in hits : i <= j

RECURSIVE LStripSet(_, _)
LStripSet(s, chars) ==
    IF s # <<>> /\ Head(s) \in chars THEN LStripSet(Tail(s), chars) ELSE s

RECURSIVE RStripSet(_, _)
RStripSet(s, chars) ==
    IF s # <<>> /\ s[Len(s)] \in chars
    THEN RStripSet(SubSeq(s, 1, Len(s) - 1), chars)
    ELSE s

\* str.strip()
Strip(s) == RStripSet(LStripSet(s, Whitespace), Whitespace)

\* str.strip(",")
StripCommas(s) == RStripSet(LStripSet(s, {","}), {","})

\* number of leading whitespace characters of s[i:]
RECURSIVE WsRun(_, _)
WsRun(s, i) ==
    IF i <= Len(s) /\ s[i] \in Whitespace THEN 1 + WsRun(s, i + 1) ELSE 0

\* number of leading digits of s[i:]
RECURSIVE DigitRun(_, _)
DigitRun(s, i) ==
    IF i <= Len(s) /\ s[i] \in Digits THEN 1 + DigitRun(s, i + 1) ELSE 0

\* " ".join(s.split()): whitespace runs collapsed, ends trimmed
RECURSIVE CollapseWs(_, _)
CollapseWs(s, i) ==
    IF i > Len(s) THEN <<>>
    ELSE IF s[i] \in Whitespace
         THEN LET n == WsRun(s, i)
              IN  IF i + n > Len(s) THEN <<>>
                  ELSE <<" ">> \o CollapseWs(s, i + n)
         ELSE <<s[i]>> \o CollapseWs(s, i + 1)

JoinSplit(s) == CollapseWs(LStripSet(s, Whitespace), 1)

\* "sep".join(parts)
RECURSIVE Join(_, _)
Join(parts, sep) ==
    IF parts = <<>> THEN <<>>
    ELSE IF Len(parts) = 1 THEN parts[1]
    ELSE parts[1] \o sep \o Join(Tail(parts), sep)

\* re.sub(r"\s*\n\s*", repl, s): every whitespace run holding a newline
RECURSIVE SubNewlines(_, _, _)
SubNewlines(s, i, repl) ==
    IF i > Len(s) THEN <<>>
    ELSE IF s[i] \in Whitespace
         THEN LET n == WsRun(s, i)
              IN  IF \E j \in i..(i + n - 1) : s[j] = "\n"
                  THEN repl \o SubNewlines(s, i + n, repl)
                  ELSE SubSeq(s, i, i + n - 1) \o SubNewlines(s, i + n, repl)
         ELSE <<s[i]>> \o SubNewlines(s, i + 1, repl)

\* a cell that is None or blank: `c is None or str(c).strip() == ""`
IsBlank(c) == c = None \/ Strip(c) = <<>>

----------------------------------------------------------------------------
(* building_rights_extractor.py: constants *)

MAX_PAGES_TO_SCAN == 30

SECTION_KEYWORDS == <<
    <<"T", "b", "l", "t", " ", "z", "k", "w", "y", "w", "t">>,
    <<"t", "w", "y", "w", "k", "z", " ", "t", "l", "b", "T">>,
    <<"z", "k", "w", "y", "w", "t", " ", "w", "h", "w", "r", "A", "w", "t",
      " ", "b", "n", "y", "y", "h">>,
    <<"h", "y", "n", "b", " ", "t", "w", "A", "r", "w", "h", "w", " ",
      "t", "w", "y", "w", "k", "z">>,
    <<"z", "k", "w", "y", "w", "t", " ", "w", "h", "w", "r", "A", "w", "t",
      " ", "b", "n", "y", "h">>,
    <<"h", "y", "n", "b", " ", "t", "w", "A", "r", "w", "h", "w", " ",
      "t", "w", "y", "w", "k", "z">> >>

StatusProposed == <<"m", "c", "b", " ", "m", "w", "c", "E">>
StatusApproved == <<"m", "c", "b", " ", "m", "A", "w", "S", "r">>

\* dict in insertion order: keyword -> normalized status
STATUS_KEYWORDS == <<
    [kw |-> StatusProposed, normalized |-> StatusProposed],
    [kw |-> Reverse(StatusProposed), normalized |-> StatusProposed],
    [kw |-> StatusApproved, normalized |-> StatusApproved],
    [kw |-> Reverse(StatusApproved), normalized |-> StatusApproved] >>

\* Words of the column patterns
W_mEl == <<"m", "E", "l">>
W_Eyqry == <<"E", "y", "q", "r", "y">>
W_Syrwt == <<"S", "y", "r", "w", "t">>
W_Srwt == <<"S", "r", "w", "t">>
W_mtHt == <<"m", "t", "H", "t">>
W_qwmwt == <<"q", "w", "m", "w", "t">>

(* dict in insertion order: canonical field -> regex patterns.  A pattern  *)
(* is a set of alternatives, each the sequence of its literal parts with   *)
(* ".*" between them; "Sy?rwt" is the two alternatives "Syrwt" | "Srwt".   *)
COLUMN_KEYWORDS == <<
    [field |-> "designation", patterns |-> << {<< <<"y", "E", "w", "d">> >>} >>],
    [field |-> "use", patterns |-> << {<< <<"S", "y", "m", "w", "S">> >>} >>],
    [field |-> "area_condition",
     patterns |-> << {<< <<"t", "A", "y", " ", "S", "T", "H">> >>} >>],
    [field |-> "plot_size_absolute",
     patterns |-> << {<< <<"m", "w", "H", "l", "T">> >>} >>],
    [field |-> "plot_size_minimum",
     patterns |-> << {<< <<"m", "z", "E", "r", "y">> >>} >>],
    [field |-> "building_area_above_main",
     patterns |-> << {<<W_mEl, W_Eyqry>>}, {<<W_Eyqry, W_mEl>>} >>],
    [field |-> "building_area_above_service",
     patterns |-> << {<<W_mEl, W_Syrwt>>, <<W_mEl, W_Srwt>>},
                     {<<W_Syrwt, W_mEl>>, <<W_Srwt, W_mEl>>} >>],
    [field |-> "building_area_below_main",
     patterns |-> << {<<W_mtHt, W_Eyqry>>}, {<<W_Eyqry, W_mtHt>>} >>],
    [field |-> "building_area_below_service",
     patterns |-> << {<<W_mtHt, W_Syrwt>>, <<W_mtHt, W_Srwt>>},
                     {<<W_Syrwt, W_mtHt>>, <<W_Srwt, W_mtHt>>} >>],
    [field |-> "building_area_total",
     patterns |-> << {<< <<"s", "h">>, <<"k">>, <<"S", "T", "H", "y">> >>} >>],
    [field |-> "coverage_pct",
     patterns |-> << {<< <<"t", "k", "s", "y", "t">> >>} >>],
    [field |-> "housing_units", patterns |-> << {<< <<"y", "H">>, <<"d">> >>} >>],
    [field |-> "building_height", patterns |-> << {<< <<"g", "w", "b", "h">> >>} >>],
    [field |-> "floors_above",
     patterns |-> << {<<W_qwmwt, W_mEl>>}, {<<W_mEl, W_qwmwt>>} >>],
    [field |-> "floors_below",
     patterns |-> << {<<W_qwmwt, W_mtHt>>}, {<<W_mtHt, W_qwmwt>>} >>],
    [field |-> "setback_rear",
     patterns |-> << {<< <<"A", "H", "w", "r", "y">> >>} >>],
    [field |-> "setback_front", patterns |-> << {<< <<"q", "d", "m", "y">> >>} >>],
    [field |-> "setback_side", patterns |-> << {<< <<"c", "y", "d", "y">> >>} >>],
    [field |-> "balcony_area",
     patterns |-> << {<< <<"m", "r", "p", "s", "w", "t">> >>},
                     {<< <<"t", "w", "s", "p", "r", "m">> >>} >>] >>

NUMERIC_FIELDS ==
    {"plot_size_absolute", "plot_size_minimum",
     "building_area_above_main", "building_area_above_service",
     "building_area_below_main", "building_area_below_service",
     "building_area_total", "coverage_pct", "housing_units",
     "building_height", "floors_above", "floors_below",
     "setback_rear", "setback_front", "setback_side",
     "balcony_area"}

TEXT_FIELDS == {"designation", "use", "area_condition"}

----------------------------------------------------------------------------
(* building_rights_extractor.py: leaf utilities *)

NumSepChars == Digits \cup {",", ".", "/", "-"}

\* number of leading characters of s[i:] in [\d,./\-]
RECURSIVE NumSepRun(_, _)
NumSepRun(s, i) ==
    IF i <= Len(s) /\ s[i] \in NumSepChars THEN 1 + NumSepRun(s, i + 1) ELSE 0

\* end of the match of (\d[\d,./\-]*\d|\d) that starts at the digit s[i]
NumericRunEnd(s, i) ==
    LET last == i + NumSepRun(s, i) - 1
    IN  CHOOSE e \in i..last :
            /\ s[e] \in Digits
            /\ \A f \in (e + 1)..last : s[f] \notin Digits

\* re.split(r"(\d[\d,./\-]*\d|\d)", text): text, run, text, ..., text
RECURSIVE SplitNumericRuns(_, _, _)
SplitNumericRuns(s, i, cur) ==
    IF i > Len(s) THEN <<cur>>
    ELSE IF s[i] \in Digits
         THEN LET e == NumericRunEnd(s, i)
              IN  <<cur, SubSeq(s, i, e)>> \o SplitNumericRuns(s, e + 1, <<>>)
         ELSE SplitNumericRuns(s, i + 1, Append(cur, s[i]))

\* a test that takes no segment for a numeric run
NeverNumericRun(seg) == FALSE

\* re.match(r"^\d[\d,./\-]*\d$|^\d$", seg); "$" also matches before a final "\n"
IsNumericRun(seg) ==
    LET core == IF seg # <<>> /\ seg[Len(seg)] = "\n"
                THEN SubSeq(seg, 1, Len(seg) - 1) ELSE seg
        ok(t) == /\ t # <<>>
                 /\ t[1] \in Digits
                 /\ t[Len(t)] \in Digits
                 /\ \A k \in 1..Len(t) : t[k] \in NumSepChars
    IN  ok(seg) \/ ok(core)

\* the segments joined in reverse order, each left as it is
RECURSIVE SegmentsAsTheyAre(_, _)
SegmentsAsTheyAre(segments, k) ==
    IF k = 0 THEN <<>>
    ELSE segments[k] \o SegmentsAsTheyAre(segments, k - 1)

RECURSIVE ReverseSegments(_, _)
ReverseSegments(segments, k) ==
    IF k = 0 THEN <<>>
    ELSE (IF IsNumericRun(segments[k]) THEN segments[k] ELSE Reverse(segments[k]))
         \o ReverseSegments(segments, k - 1)

_reverse_hebrew(text) ==
    LET segments == SplitNumericRuns(text, 1, <<>>)
    IN  ReverseSegments(segments, Len(segments))

_clean_cell(value) ==
    IF value = None THEN None
    ELSE LET cleaned == Strip(SubNewlines(value, 1, <<" ">>))
         IN  IF cleaned # <<>> THEN cleaned ELSE None

\* s[j:] starts with a footnote reference \(\d+\)
FootnoteAt(s, j) ==
    /\ j <= Len(s)
    /\ s[j] = "("
    /\ DigitRun(s, j + 1) >= 1
    /\ j + 1 + DigitRun(s, j + 1) <= Len(s)
    /\ s[j + 1 + DigitRun(s, j + 1)] = ")"

FootnoteEnd(s, j) == j + 1 + DigitRun(s, j + 1)

\* re.sub(r"\(\d+\)\s*", "", s)
RECURSIVE SubFootnoteLead(_, _)
SubFootnoteLead(s, i) ==
    IF i > Len(s) THEN <<>>
    ELSE IF FootnoteAt(s, i)
         THEN LET j == FootnoteEnd(s, i) + 1
              IN  SubFootnoteLead(s, j + WsRun(s, j))
         ELSE <<s[i]>> \o SubFootnoteLead(s, i + 1)

\* re.sub(r"\s*\(\d+\)", "", s)
RECURSIVE SubFootnoteTrail(_, _)
SubFootnoteTrail(s, i) ==
    IF i > Len(s) THEN <<>>
    ELSE IF FootnoteAt(s, i + WsRun(s, i))
         THEN SubFootnoteTrail(s, FootnoteEnd(s, i + WsRun(s, i)) + 1)
         ELSE <<s[i]>> \o SubFootnoteTrail(s, i + 1)

\* the two footnote substitutions, each followed by .strip()
StripFootnotes(s) == Strip(SubFootnoteTrail(Strip(SubFootnoteLead(s, 1)), 1))

RECURSIVE RemoveChar(_, _)
RemoveChar(s, c) ==
    IF s = <<>> THEN <<>>
    ELSE (IF Head(s) = c THEN <<>> ELSE <<Head(s)>>) \o RemoveChar(Tail(s), c)

DigitValue(c) ==
    CASE c = "0" -> 0 [] c = "1" -> 1 [] c = "2" -> 2 [] c = "3" -> 3
      [] c = "4" -> 4 [] c = "5" -> 5 [] c = "6" -> 6 [] c = "7" -> 7
      [] c = "8" -> 8 [] c = "9" -> 9

RECURSIVE DigitsValue(_)
DigitsValue(ds) ==
    IF ds = <<>> THEN 0
    ELSE 10 * DigitsValue(SubSeq(ds, 1, Len(ds) - 1)) + DigitValue(ds[Len(ds)])

\* the exception float() raises on a string that is no number
ValueError == <<"ValueError">>

(* A float is <<n, k>>, the number n / 10^k in lowest terms of 10 (exact   *)
(* for the short decimal strings of the model).                             *)
RECURSIVE FloatNorm(_, _)
FloatNorm(n, k) ==
    IF k > 0 /\ n % 10 = 0 THEN FloatNorm(n \div 10, k - 1) ELSE <<n, k>>

(* float(s) for strings over the model's characters: optional sign, then   *)
(* digits with an optional "." (digits on at least one side); surrounding  *)
(* whitespace is ignored; anything else raises ValueError.                 *)
PyFloat(s) ==
    LET Parts(negative, ip, fp) ==
            IF /\ \A k \in 1..Len(ip) : ip[k] \in Digits
               /\ \A k \in 1..Len(fp) : fp[k] \in Digits
               /\ Len(ip) + Len(fp) >= 1
            THEN FloatNorm(IF negative THEN 0 - DigitsValue(ip \o fp)
                           ELSE DigitsValue(ip \o fp), Len(fp))
            ELSE ValueError
        Body(negative, body, dot) ==
            Parts(negative,
                  IF dot = 0 THEN body ELSE SubSeq(body, 1, dot - 1),
                  IF dot = 0 THEN <<>> ELSE SubSeq(body, dot + 1, Len(body)))
        Signed(t) ==
            IF t # <<>> /\ t[1] \in {"-", "+"}
            THEN Body(t[1] = "-", Tail(t), FindFrom(Tail(t), <<".">>, 1))
            ELSE Body(FALSE, t, FindFrom(t, <<".">>, 1))
    IN  Signed(Strip(s))

\* a try block without its except clause
Uncaught(v) == v

\* "try: return float(cleaned)  except ValueError: return None"
ExceptValueError(v) == IF v = ValueError THEN None ELSE v

_parse_numeric(raw) ==
    IF raw = None \/ raw = <<>> THEN None
    ELSE LET Parse(cleaned) ==
                 IF cleaned = <<>> THEN None
                 ELSE ExceptValueError(PyFloat(RemoveChar(cleaned, ",")))
         IN  Parse(StripFootnotes(raw))

\* re.match(r"^[\d,.\-\s]+$", stripped)
LooksNumeric(stripped) ==
    /\ stripped # <<>>
    /\ \A k \in 1..Len(stripped) :
           stripped[k] \in Digits \cup {",", ".", "-"} \cup Whitespace

\* a classifier that also takes a row with exactly 30% numeric cells for a header
HeaderUpToThreshold(row) ==
    LET Numeric(cells) ==
            {i \in cells : LooksNumeric(StripFootnotes(Strip(row[i])))}
        Classify(non_none_cells) ==
            \/ non_none_cells = {}
            \/ 10 * Cardinality(Numeric(non_none_cells)) <= 3 * Cardinality(non_none_cells)
    IN  Classify({i \in 1..Len(row) : ~IsBlank(row[i])})

_is_header_row(row) ==
    IF row = <<>> THEN TRUE
    ELSE LET Numeric(cells) ==
                 {i \in cells : LooksNumeric(StripFootnotes(Strip(row[i])))}
             Classify(non_none_cells) ==
                 IF non_none_cells = {} THEN TRUE
                 ELSE 10 * Cardinality(Numeric(non_none_cells))
                          < 3 * Cardinality(non_none_cells)
         IN  Classify({i \in 1..Len(row) : ~IsBlank(row[i])})

RECURSIVE ForwardFill(_, _, _)
ForwardFill(row, i, last_val) ==
    IF i > Len(row) THEN <<>>
    ELSE IF ~IsBlank(row[i])
         THEN <<row[i]>> \o ForwardFill(row, i + 1, row[i])
         ELSE IF last_val # None
              THEN <<last_val>> \o ForwardFill(row, i + 1, last_val)
              ELSE <<row[i]>> \o ForwardFill(row, i + 1, last_val)

_forward_fill_row(row) == ForwardFill(row, 1, None)

----------------------------------------------------------------------------
(* building_rights_extractor.py: header merge, column mapping, parsing *)

\* a dict with no key
EmptyDict == [k \in {} |-> None]

\* max(len(row) for row in rows)
MaxRowLen(rows) ==
    CHOOSE n \in {Len(rows[i]) : i \in 1..Len(rows)} :
        \A i \in 1..Len(rows) : Len(rows[i]) <= n

\* row + [None] * (n - len(row))
PadNone(row, n) == row \o [i \in 1..(n - Len(row)) |-> None]

\* a sub-header row filled like the top row, whatever the parents
FillAcrossParents(row, filled_top, col, last_val, last_parent) ==
    ForwardFill(row, col, last_val)

\* one sub-header row: fill only while the top-row parent stays the same
RECURSIVE SubHeaderFill(_, _, _, _, _)
SubHeaderFill(row, filled_top, col, last_val, last_parent) ==
    IF col > Len(row) THEN <<>>
    ELSE LET parent == filled_top[col]
             cell == row[col]
         IN  IF ~IsBlank(cell)
             THEN <<cell>> \o SubHeaderFill(row, filled_top, col + 1, cell, parent)
             ELSE IF last_val # None /\ parent # None /\ parent = last_parent
                  THEN <<last_val>>
                       \o SubHeaderFill(row, filled_top, col + 1, last_val, last_parent)
                  ELSE <<cell>>
                       \o SubHeaderFill(row, filled_top, col + 1, None, parent)

\* the distinct cleaned values of one column, top to bottom
RECURSIVE HeaderParts(_, _, _, _)
HeaderParts(padded_rows, col, r, parts) ==
    IF r > Len(padded_rows) THEN parts
    ELSE LET Add(val) ==
                 IF val # None /\ \A k \in 1..Len(parts) : parts[k] # val
                 THEN HeaderParts(padded_rows, col, r + 1, Append(parts, val))
                 ELSE HeaderParts(padded_rows, col, r + 1, parts)
         IN  Add(_clean_cell(padded_rows[r][col]))

\* padded_rows: the filled top row and the sub-header rows filled within
\* their parent spans
PaddedRows(header_rows) ==
    LET Pad(num_cols, filled_top) ==
            [r \in 1..Len(header_rows) |->
                IF r = 1 THEN filled_top
                ELSE SubHeaderFill(PadNone(header_rows[r], num_cols),
                                   filled_top, 1, None, None)]
        Fill(num_cols) ==
            Pad(num_cols, PadNone(_forward_fill_row(header_rows[1]), num_cols))
    IN  Fill(MaxRowLen(header_rows))

_merge_header_rows(header_rows) ==
    IF header_rows = <<>> THEN <<>>
    ELSE LET Header(raw_header) ==
                 IF raw_header # <<>> THEN _reverse_hebrew(raw_header) ELSE <<>>
             Merge(padded_rows) ==
                 [col \in 1..MaxRowLen(header_rows) |->
                     Header(Join(HeaderParts(padded_rows, col, 1, <<>>),
                                 <<" ", "|", " ">>))]
         IN  Merge(PaddedRows(header_rows))

\* no "\n" in s[a..b]: "." does not match a newline
NoNewline(s, a, b) == \A k \in a..b : s[k] # "\n"

\* the literal parts occur in order from `from` on, ".*" between them
RECURSIVE MatchParts(_, _, _)
MatchParts(parts, s, from) ==
    IF parts = <<>> THEN TRUE
    ELSE \E i \in from..Len(s) :
            /\ StartsAt(s, parts[1], i)
            /\ NoNewline(s, from, i - 1)
            /\ MatchParts(Tail(parts), s, i + Len(parts[1]))

\* re.search(keyword, header) for one pattern of COLUMN_KEYWORDS
ReSearch(pattern, header) ==
    \E alt \in pattern :
        \E i \in 1..Len(header) :
            /\ StartsAt(header, alt[1], i)
            /\ MatchParts(Tail(alt), header, i + Len(alt[1]))

\* the first field with a matching pattern, claimed or not
FirstFieldClaimedOrNot(header, used_fields) ==
    LET First(hits) ==
            IF hits = {} THEN 0 ELSE CHOOSE k \in hits : \A j \in hits : k <= j
        Hits(keywords) ==
            {k \in 1..Len(keywords) :
                \E p \in 1..Len(keywords[k].patterns) :
                    ReSearch(keywords[k].patterns[p], header)}
    IN  First(Hits(COLUMN_KEYWORDS))

\* the first unclaimed field, in COLUMN_KEYWORDS order, with a matching pattern
FirstMatchingField(header, used_fields) ==
    LET First(hits) ==
            IF hits = {} THEN 0 ELSE CHOOSE k \in hits : \A j \in hits : k <= j
        Hits(keywords) ==
            {k \in 1..Len(keywords) :
                /\ keywords[k].field \notin used_fields
                /\ \E p \in 1..Len(keywords[k].patterns) :
                       ReSearch(keywords[k].patterns[p], header)}
    IN  First(Hits(COLUMN_KEYWORDS))

\* column_map: 0-based column index -> canonical field
RECURSIVE MapColumnsFrom(_, _, _, _)
MapColumnsFrom(merged_headers, c, column_map, used_fields) ==
    IF c > Len(merged_headers) THEN column_map
    ELSE LET Claim(field_name) ==
                 MapColumnsFrom(merged_headers, c + 1,
                                column_map @@ ((c - 1) :> field_name),
                                used_fields \cup {field_name})
             Step(k) ==
                 IF k = 0
                 THEN MapColumnsFrom(merged_headers, c + 1, column_map, used_fields)
                 ELSE Claim(COLUMN_KEYWORDS[k].field)
         IN  Step(IF merged_headers[c] = <<>> THEN 0
                  ELSE FirstMatchingField(merged_headers[c], used_fields))

_map_columns(merged_headers) == MapColumnsFrom(merged_headers, 1, EmptyDict, {})

(* The table with the largest rows x columns among those with at least 3   *)
(* rows and 5 columns, the first one on ties; <<>> stands for None (the     *)
(* callers test `not table`, and a selected table is never empty).         *)
RECURSIVE SelectRightsFrom(_, _, _, _)
SelectRightsFrom(tables, t, best_table, best_score) ==
    IF t > Len(tables) THEN best_table
    ELSE LET Score(table, score) ==
                 IF score > best_score
                 THEN SelectRightsFrom(tables, t + 1, table, score)
                 ELSE SelectRightsFrom(tables, t + 1, best_table, best_score)
             Consider(table) ==
                 IF table = <<>> \/ Len(table) < 3
                 THEN SelectRightsFrom(tables, t + 1, best_table, best_score)
                 ELSE IF MaxRowLen(table) < 5
                 THEN SelectRightsFrom(tables, t + 1, best_table, best_score)
                 ELSE Score(table, Len(table) * MaxRowLen(table))
         IN  Consider(tables[t])

_select_rights_table(tables) == SelectRightsFrom(tables, 1, <<>>, 0)

\* number of leading header rows of a table
RECURSIVE LeadingHeaderRows(_, _)
LeadingHeaderRows(raw_table, r) ==
    IF r <= Len(raw_table) /\ _is_header_row(raw_table[r])
    THEN 1 + LeadingHeaderRows(raw_table, r + 1)
    ELSE 0

\* `not row or all(c is None or str(c).strip() == "" for c in row)`
IsEmptyRow(row) == \A i \in 1..Len(row) : IsBlank(row[i])

\* the typed values of one data row, by canonical field
RowData(row, column_map) ==
    LET Typed(field_name, raw_val) ==
            IF field_name \in NUMERIC_FIELDS THEN _parse_numeric(raw_val)
            ELSE IF raw_val # None THEN _reverse_hebrew(raw_val)
            ELSE raw_val
        Cells(cols) ==
            [f \in {column_map[c] : c \in cols} |->
                Typed(f, _clean_cell(row[(CHOOSE c \in cols : column_map[c] = f) + 1]))]
    IN  Cells({c \in DOMAIN column_map : c < Len(row)})

\* the untransformed values of one data row, by canonical field
RawData(row, column_map) ==
    LET Cells(cols) ==
            [f \in {column_map[c] : c \in cols} |->
                _clean_cell(row[(CHOOSE c \in cols : column_map[c] = f) + 1])]
    IN  Cells({c \in DOMAIN column_map : c < Len(row)})

\* a retention test that keeps every non-empty row, whatever its fields hold
RetainAnyRow(row_data) == TRUE

\* "only include rows with at least some data"
RetainRow(row_data) == \E f \in DOMAIN row_data : row_data[f] # None

RECURSIVE ParseDataRows(_, _, _)
ParseDataRows(raw_table, r, column_map) ==
    IF r > Len(raw_table) THEN <<>>
    ELSE LET Keep(row, row_data) ==
                 IF IsEmptyRow(row) \/ ~RetainRow(row_data)
                 THEN ParseDataRows(raw_table, r + 1, column_map)
                 ELSE <<row_data @@ ("_raw" :> RawData(row, column_map))>>
                      \o ParseDataRows(raw_table, r + 1, column_map)
         IN  Keep(raw_table[r], RowData(raw_table[r], column_map))

_parse_table(raw_table) ==
    LET Mapped(n, merged_headers, column_map) ==
            IF DOMAIN column_map = {}
            THEN [rows |-> <<>>, headers |-> merged_headers, column_map |-> EmptyDict]
            ELSE [rows |-> ParseDataRows(raw_table, n + 1, column_map),
                  headers |-> merged_headers,
                  column_map |-> column_map]
        Merged(n, merged_headers) ==
            Mapped(n, merged_headers, _map_columns(merged_headers))
        Headed(n) ==
            IF n = 0
            THEN [rows |-> <<>>, headers |-> <<>>, column_map |-> EmptyDict]
            ELSE Merged(n, _merge_header_rows(SubSeq(raw_table, 1, n)))
    IN  Headed(LeadingHeaderRows(raw_table, 1))

----------------------------------------------------------------------------
(* Python re, for the patterns of tender_pdf_extractor.py.                 *)
(* A pattern is a sequence of atoms:                                       *)
(*   lit    an alternation of literals, in the order the regex tries them  *)
(*   cls    a character class with a greedy {min,max} (max < 0: no limit)  *)
(*   open / close   the bounds of capture group g (1 or 2)                 *)
(*   eos    "$": the end of the string, or just before a final "\n"        *)
(* ReMatchAt yields what a backtracking matcher finds first.               *)

Lit(str) == [t |-> "lit", alts |-> <<str>>]
Alt(strs) == [t |-> "lit", alts |-> strs]
Cls(chars, min, max) == [t |-> "cls", neg |-> FALSE, chars |-> chars, min |-> min, max |-> max]
NotCls(chars, min, max) == [t |-> "cls", neg |-> TRUE, chars |-> chars, min |-> min, max |-> max]
Open(g) == [t |-> "open", g |-> g]
Close(g) == [t |-> "close", g |-> g]
Eos == [t |-> "eos"]

NoMatch == [ok |-> FALSE, start |-> 0, end |-> 0, s1 |-> 0, e1 |-> 0, s2 |-> 0, e2 |-> 0]

InClass(c, a) == IF a.neg THEN c \notin a.chars ELSE c \in a.chars

\* how many characters of s[i:] the class atom can take at most
RECURSIVE ClassRun(_, _, _, _)
ClassRun(s, i, a, n) ==
    IF i + n <= Len(s) /\ (a.max < 0 \/ n < a.max) /\ InClass(s[i + n], a)
    THEN ClassRun(s, i, a, n + 1)
    ELSE n

\* atoms[k..] matched at s[i:]; end is the index after the match
RECURSIVE ReMatchAt(_, _, _, _)
ReMatchAt(atoms, k, s, i) ==
    IF k > Len(atoms)
    THEN [ok |-> TRUE, start |-> 0, end |-> i, s1 |-> 0, e1 |-> 0, s2 |-> 0, e2 |-> 0]
    ELSE LET a == atoms[k]
         IN  CASE a.t = "lit" ->
                    LET hits == {j \in 1..Len(a.alts) :
                                    /\ StartsAt(s, a.alts[j], i)
                                    /\ ReMatchAt(atoms, k + 1, s, i + Len(a.alts[j])).ok}
                    IN  IF hits = {} THEN NoMatch
                        ELSE LET j == CHOOSE x \in hits : \A y \in hits : x <= y
                             IN  ReMatchAt(atoms, k + 1, s, i + Len(a.alts[j]))
               [] a.t = "cls" ->
                    LET run == ClassRun(s, i, a, 0)
                        ns == {n \in a.min..run : ReMatchAt(atoms, k + 1, s, i + n).ok}
                    IN  IF ns = {} THEN NoMatch
                        ELSE LET n == CHOOSE x \in ns : \A y \in ns : x >= y
                             IN  ReMatchAt(atoms, k + 1, s, i + n)
               [] a.t = "open" ->
                    LET r == ReMatchAt(atoms, k + 1, s, i)
                    IN  IF ~r.ok THEN r
                        ELSE IF a.g = 1 THEN [r EXCEPT !.s1 = i] ELSE [r EXCEPT !.s2 = i]
               [] a.t = "close" ->
                    LET r == ReMatchAt(atoms, k + 1, s, i)
                    IN  IF ~r.ok THEN r
                        ELSE IF a.g = 1 THEN [r EXCEPT !.e1 = i] ELSE [r EXCEPT !.e2 = i]
               [] a.t = "eos" ->
                    IF i = Len(s) + 1 \/ (i = Len(s) /\ s[i] = "\n")
                    THEN ReMatchAt(atoms, k + 1, s, i)
                    ELSE NoMatch

\* re.match(pattern, s)
ReMatch(atoms, s) == [ReMatchAt(atoms, 1, s, 1) EXCEPT !.start = 1]

\* re.search(pattern, s): the leftmost match
RegexSearch(atoms, s) ==
    LET Leftmost(starts) ==
            IF starts = {} THEN NoMatch
            ELSE [ReMatchAt(atoms, 1, s, CHOOSE x \in starts : \A y \in starts : x <= y)
                     EXCEPT !.start = CHOOSE x \in starts : \A y \in starts : x <= y]
    IN  Leftmost({i \in 1..(Len(s) + 1) : ReMatchAt(atoms, 1, s, i).ok})

\* match.group(0), match.group(1), match.group(2)
Group0(s, m) == SubSeq(s, m.start, m.end - 1)
Group1(s, m) == SubSeq(s, m.s1, m.e1 - 1)
Group2(s, m) == SubSeq(s, m.s2, m.e2 - 1)

----------------------------------------------------------------------------
(* tender_pdf_extractor.py: constants *)

PLOT_MAX_PAGES_TO_SCAN == 15

\* dict in insertion order: field -> keyword variants
HEADER_KEYWORDS == <<
    [field |-> "gush",
     keywords |-> {<<"g", "w", "S">>, <<"S", "w", "g">>, <<"S", " ", "w", "g">>}],
    [field |-> "helka",
     keywords |-> {<<"H", "l", "q", "h">>, <<"h", "q", "l", "H">>}],
    [field |-> "migrash",
     keywords |-> {<<"m", "g", "r", "S">>, <<"S", "r", "g", "m">>,
                   <<"S", " ", "r", "g", "m">>}],
    [field |-> "mitham",
     keywords |-> {<<"m", "t", "H", "M">>, <<"M", "H", "t", "m">>,
                   <<"M", " ", "H", "t", "m">>}],
    [field |-> "area",
     keywords |-> {<<"S", "T", "H">>, <<"H", "T", "S">>}],
    [field |-> "min_price",
     keywords |-> {<<"m", "H", "y", "r">>, <<"r", "y", "H", "m">>}],
    [field |-> "guarantee",
     keywords |-> {<<"E", "r", "b", "w", "t">>, <<"t", "w", "b", "r", "E">>,
                   <<"t", " ", "w", "b", "r", "E">>}] >>

COMBINED_GUSH_HELKA_KEYWORDS ==
    {<<"g", "w", "S", "/", "H", "l", "q", "h">>,
     <<"h", "q", "l", "H", "/", "S", "w", "g">>}

PLAN_KEYWORDS_NORMAL == <<
    <<"t", "k", "n", "y", "t">>,
    <<"t", "b", "\"", "E">>,
    <<"t", "b", "GERSHAYIM", "E">>,
    <<"t", "w", "k", "n", "y", "t">> >>

PLAN_KEYWORDS_REVERSED == <<
    <<"t", "y", "n", "k", "t">>,
    <<"E", "\"", "b", "t">>,
    <<"E", "GERSHAYIM", "b", "t">>,
    <<"t", "y", "n", "k", "w", "t">> >>

ColonChars == {":", "FULLWIDTH_COLON"}
PlanHeadChars == Digits \cup HebrewLetters
PlanTailChars == Digits \cup HebrewLetters \cup {"/", "-"}

\* [\dA-t]{1,10}[-/][\dA-t/\-]{3,30}
PLAN_NUMBER_PATTERN == <<
    Cls(PlanHeadChars, 1, 10), Cls({"-", "/"}, 1, 1), Cls(PlanTailChars, 3, 30) >>

Year == <<Alt(<< <<"1", "9">>, <<"2", "0">> >>), Cls(Digits, 2, 2)>>
DayOrMonth == Cls(Digits, 1, 2)

\* the three alternatives of DATE_PATTERN
DATE_PATTERN == <<
    <<DayOrMonth, Lit(<<"/">>), DayOrMonth, Lit(<<"/">>)>> \o Year \o <<Eos>>,
    <<DayOrMonth, Lit(<<".">>), DayOrMonth, Lit(<<".">>)>> \o Year \o <<Eos>>,
    Year \o <<Lit(<<"/">>), DayOrMonth, Lit(<<"/">>), DayOrMonth, Eos>> >>

MIN_KEY_COLUMNS == 1

NON_LAND_KEYWORDS == <<
    <<"y", "p", "d", "w", "E", " ", "h", "r", "y", "p", "H">>,
    <<"E", "w", "d", "p", "y", " ", "H", "p", "y", "r", "h">>,
    <<"h", "y", "y", "y", "r", "k">>,
    <<"k", "r", "y", "y", "h">> >>

ANNOUNCEMENT_KEYWORDS == <<
    <<"M", "y", "d", "E", "w", "m", " ", "t", "y", "y", "H", "d">>,
    <<"d", "H", "y", "y", "t", " ", "m", "w", "E", "d", "y", "M">>,
    <<"N", "w", "k", "d", "E", " ", "t", "E", "d", "w", "m">>,
    <<"m", "w", "d", "E", "t", " ", "E", "d", "k", "w", "N">> >>

STRONG_FIELDS == {"gush", "helka", "migrash", "gush_helka"}

----------------------------------------------------------------------------
(* tender_pdf_extractor.py: helpers *)

\* _clean_cell of tender_pdf_extractor.py: newlines become ", "
_clean_cell_plot(value) ==
    IF value = None THEN None
    ELSE LET NoneIfEmpty(cleaned) == IF cleaned # <<>> THEN cleaned ELSE None
         IN  NoneIfEmpty(Strip(StripCommas(Strip(SubNewlines(value, 1, <<",", " ">>)))))

_header_matches(cell_text, keyword_list) ==
    IF cell_text = None \/ cell_text = <<>> THEN FALSE
    ELSE \E kw \in keyword_list : Contains(JoinSplit(cell_text), kw)

\* re.sub(r"\s*/\s*", "/", s)
RECURSIVE SubSlash(_, _)
SubSlash(s, i) ==
    IF i > Len(s) THEN <<>>
    ELSE LET j == i + WsRun(s, i)
         IN  IF j <= Len(s) /\ s[j] = "/"
             THEN <<"/">> \o SubSlash(s, j + 1 + WsRun(s, j + 1))
             ELSE <<s[i]>> \o SubSlash(s, i + 1)

\* the fields of HEADER_KEYWORDS not yet in indices that the cell matches
RECURSIVE ClaimFields(_, _, _, _)
ClaimFields(cell, col_idx, k, indices) ==
    IF k > Len(HEADER_KEYWORDS) THEN indices
    ELSE IF /\ HEADER_KEYWORDS[k].field \notin DOMAIN indices
            /\ _header_matches(cell, HEADER_KEYWORDS[k].keywords)
         THEN ClaimFields(cell, col_idx, k + 1,
                          indices @@ (HEADER_KEYWORDS[k].field :> col_idx))
         ELSE ClaimFields(cell, col_idx, k + 1, indices)

\* indices: field -> 0-based column index
RECURSIVE FindColumnsFrom(_, _, _)
FindColumnsFrom(header_row, c, indices) ==
    IF c > Len(header_row) THEN indices
    ELSE LET cell == header_row[c]
         IN  IF cell = None THEN FindColumnsFrom(header_row, c + 1, indices)
             ELSE IF \E kw \in COMBINED_GUSH_HELKA_KEYWORDS :
                         Contains(SubSlash(JoinSplit(cell), 1), kw)
             THEN FindColumnsFrom(header_row, c + 1,
                                  ("gush_helka" :> (c - 1)) @@ indices)
             ELSE FindColumnsFrom(header_row, c + 1,
                                  ClaimFields(cell, c - 1, 1, indices))

_find_column_indices(header_row) == FindColumnsFrom(header_row, 1, EmptyDict)

_is_date(value) ==
    \E k \in 1..Len(DATE_PATTERN) : ReMatch(DATE_PATTERN[k], Strip(value)).ok

\* keyword + r"[^:\n]{0,30}[::]\s*(" + PLAN_NUMBER_PATTERN + r")"
PlanAfterKeyword(keyword) ==
    <<Lit(keyword), NotCls({":", "\n"}, 0, 30), Cls(ColonChars, 1, 1),
      Cls(Whitespace, 0, -1), Open(1)>> \o PLAN_NUMBER_PATTERN \o <<Close(1)>>

\* r"(" + PLAN_NUMBER_PATTERN + r")\s*:hynh"
PlanBeforeHina ==
    <<Open(1)>> \o PLAN_NUMBER_PATTERN
    \o <<Close(1), Cls(Whitespace, 0, -1), Lit(<<":", "h", "n", "y", "h">>)>>

TokhnitReversed == << <<"t", "y", "n", "k", "w", "t">>, <<"t", "y", "n", "k", "w", "M">> >>
TakhnitReversed == << <<"t", "y", "n", "k", "t">> >>

\* r"(" + PLAN_NUMBER_PATTERN + r")\s+" + kw_pattern
PlanBeforeKeyword(kw_alts) ==
    <<Open(1)>> \o PLAN_NUMBER_PATTERN
    \o <<Close(1), Cls(Whitespace, 1, -1), Alt(kw_alts)>>

\* r"(" + PLAN_NUMBER_PATTERN + r")\s+(?:tynkw[tM]|tynkt)\s+hlH"
PlanBeforeHala ==
    <<Open(1)>> \o PLAN_NUMBER_PATTERN
    \o <<Close(1), Cls(Whitespace, 1, -1), Alt(TokhnitReversed \o TakhnitReversed),
         Cls(Whitespace, 1, -1), Lit(<<"h", "l", "H">>)>>

\* the keyword-anchored patterns, in the order the function tries them
PlanPatterns ==
    [k \in 1..Len(PLAN_KEYWORDS_NORMAL \o PLAN_KEYWORDS_REVERSED) |->
        PlanAfterKeyword((PLAN_KEYWORDS_NORMAL \o PLAN_KEYWORDS_REVERSED)[k])]
    \o <<PlanBeforeHina,
         PlanBeforeKeyword(TokhnitReversed),
         PlanBeforeKeyword(TakhnitReversed),
         PlanBeforeHala>>

\* the candidate of one keyword-anchored pattern, None when it does not match
PatternCandidate(atoms, text) ==
    LET Candidate(m) == IF m.ok THEN Strip(Group1(text, m)) ELSE None
    IN  Candidate(RegexSearch(atoms, text))

\* the candidate found within 80 characters of the keyword's first occurrence
ContextCandidate(keyword, text) ==
    LET Candidate(context, m) == IF m.ok THEN Strip(Group0(context, m)) ELSE None
        Search(context) == Candidate(context, RegexSearch(PLAN_NUMBER_PATTERN, context))
        Window(at) ==
            IF at = 0 THEN None
            ELSE Search(SubSeq(text,
                               IF at - 80 > 1 THEN at - 80 ELSE 1,
                               Min(at + Len(keyword) - 1 + 80, Len(text))))
    IN  Window(FindFrom(text, keyword, 1))

\* every candidate in the order the function reaches it (None: no match)
PlanCandidates(text) ==
    LET Anchored(patterns) ==
            [k \in 1..Len(patterns) |-> PatternCandidate(patterns[k], text)]
        Nearby(keywords) ==
            [k \in 1..Len(keywords) |-> ContextCandidate(keywords[k], text)]
    IN  Anchored(PlanPatterns) \o Nearby(PLAN_KEYWORDS_NORMAL \o PLAN_KEYWORDS_REVERSED)

\* a candidate returned without the date check
AcceptAny(plan_num) == TRUE

\* `if not _is_date(plan_num): return plan_num`
AcceptCandidate(plan_num) == ~_is_date(plan_num)

_extract_plan_number(text) ==
    LET First(cands, good) ==
            IF good = {} THEN None
            ELSE cands[CHOOSE k \in good : \A j \in good : k <= j]
        Accepted(cands) ==
            First(cands, {k \in 1..Len(cands) :
                             cands[k] # None /\ AcceptCandidate(cands[k])})
    IN  Accepted(PlanCandidates(text))

\* val.strip().strip(",").strip()
_clean_num(val) == Strip(StripCommas(Strip(val)))

GushWords == << <<"b", "g", "w", "S">>, <<"g", "w", "S">> >>
GushWordsReversed == << <<"S", "w", "g", "b">>, <<"S", "w", "g">> >>
NumCommaChars == Digits \cup {","}

\* r"(?:bgwS|gwS)\s+([\d,]+)\s+(?:Hlqh|Hlqwt)\s+([\d,\s]+)"
GushHelkaNormal == <<
    Alt(GushWords), Cls(Whitespace, 1, -1),
    Open(1), Cls(NumCommaChars, 1, -1), Close(1), Cls(Whitespace, 1, -1),
    Alt(<< <<"H", "l", "q", "h">>, <<"H", "l", "q", "w", "t">> >>),
    Cls(Whitespace, 1, -1),
    Open(2), Cls(NumCommaChars \cup Whitespace, 1, -1), Close(2) >>

\* r"([\d,\s]+)\s+(?:hqlH|twqlH)\s+([\d,]+)\s+(?:Swgb|Swg)"
GushHelkaReversed == <<
    Open(1), Cls(NumCommaChars \cup Whitespace, 1, -1), Close(1),
    Cls(Whitespace, 1, -1),
    Alt(<< <<"h", "q", "l", "H">>, <<"t", "w", "q", "l", "H">> >>),
    Cls(Whitespace, 1, -1),
    Open(2), Cls(NumCommaChars, 1, -1), Close(2), Cls(Whitespace, 1, -1),
    Alt(GushWordsReversed) >>

\* r"(?:bgwS|gwS)\s+([\d,]+)"
GushOnlyNormal == <<
    Alt(GushWords), Cls(Whitespace, 1, -1),
    Open(1), Cls(NumCommaChars, 1, -1), Close(1) >>

\* r"([\d,]+)\s+(?:Swgb|Swg)"
GushOnlyReversed == <<
    Open(1), Cls(NumCommaChars, 1, -1), Close(1), Cls(Whitespace, 1, -1),
    Alt(GushWordsReversed) >>

(* A dict with "gush" and optionally "helka"; EmptyDict stands for None    *)
(* (the caller tests `if text_gush`, and a returned dict always has gush). *)
_extract_gush_helka_from_text(text) ==
    LET GushOnlyRev(m) ==
            IF m.ok THEN ("gush" :> _clean_num(Group1(text, m)))
            ELSE EmptyDict
        GushOnly(m) ==
            IF m.ok THEN ("gush" :> _clean_num(Group1(text, m)))
            ELSE GushOnlyRev(RegexSearch(GushOnlyReversed, text))
        Reversed(m) ==
            IF m.ok
            THEN ("gush" :> _clean_num(Group2(text, m)))
                 @@ ("helka" :> _clean_num(Group1(text, m)))
            ELSE GushOnly(RegexSearch(GushOnlyNormal, text))
        Normal(m) ==
            IF m.ok
            THEN ("gush" :> _clean_num(Group1(text, m)))
                 @@ ("helka" :> _clean_num(Group2(text, m)))
            ELSE Reversed(RegexSearch(GushHelkaReversed, text))
    IN  Normal(RegexSearch(GushHelkaNormal, text))

PlotWordsReversed ==
    << <<"M", "y", "/", "S", "r", "g", "m", "h">>,
       <<"M", "y", "S", "r", "g", "m", "h">>,
       <<"S", "r", "g", "m", "h">> >>
LandWordsReversed ==
    << <<"E", "q", "r", "q", "h">>, <<"N", "y", "E", "q", "r", "q", "m", "h">> >>

\* r"yyEwd\s+(?:hmgrS|hqrqE|hmqrqEyN)" + r"[^:\n]{0,20}[::]\s*([^\n.]{3,80})"
PurposeNormal == <<
    Lit(<<"y", "y", "E", "w", "d">>), Cls(Whitespace, 1, -1),
    Alt(<< <<"h", "m", "g", "r", "S">>, <<"h", "q", "r", "q", "E">>,
           <<"h", "m", "q", "r", "q", "E", "y", "N">> >>),
    NotCls({":", "\n"}, 0, 20), Cls(ColonChars, 1, 1), Cls(Whitespace, 0, -1),
    Open(1), NotCls({"\n", "."}, 3, 80), Close(1) >>

\* r"([^\n,]{2,40})\s+(?:wnyh|Awh)\s+(?:(?:My/?)?Srgmh|Eqrqh|NyEqrqmh)\s+dwEyy?"
PurposeReversedIs == <<
    Open(1), NotCls({"\n", ","}, 2, 40), Close(1), Cls(Whitespace, 1, -1),
    Alt(<< <<"w", "n", "y", "h">>, <<"A", "w", "h">> >>), Cls(Whitespace, 1, -1),
    Alt(PlotWordsReversed \o LandWordsReversed), Cls(Whitespace, 1, -1),
    Lit(<<"d", "w", "E", "y">>), Cls({"y"}, 0, 1) >>

\* r"\.([^\n.]{3,40})\s*[::]\s*Awh\s+(?:(?:My/?)?Srgmh)\s+dwEyy?"
PurposeReversedColon == <<
    Lit(<<".">>), Open(1), NotCls({"\n", "."}, 3, 40), Close(1),
    Cls(Whitespace, 0, -1), Cls(ColonChars, 1, 1), Cls(Whitespace, 0, -1),
    Lit(<<"A", "w", "h">>), Cls(Whitespace, 1, -1),
    Alt(PlotWordsReversed), Cls(Whitespace, 1, -1),
    Lit(<<"d", "w", "E", "y">>), Cls({"y"}, 0, 1) >>

\* r"(?:Srgmh|Eqrqh|NyEqrqmh)\s+dwEyy?" + r"[^:\n]{0,20}[::]\s*([^\n.]{3,40})"
PurposeReversedKeyword == <<
    Alt(<< <<"S", "r", "g", "m", "h">> >> \o LandWordsReversed),
    Cls(Whitespace, 1, -1), Lit(<<"d", "w", "E", "y">>), Cls({"y"}, 0, 1),
    NotCls({":", "\n"}, 0, 20), Cls(ColonChars, 1, 1), Cls(Whitespace, 0, -1),
    Open(1), NotCls({"\n", "."}, 3, 40), Close(1) >>

_extract_purpose(text) ==
    LET Pattern4(m) ==
            IF m.ok THEN _reverse_hebrew(Strip(Group1(text, m))) ELSE None
        Pattern3(m) ==
            IF m.ok THEN _reverse_hebrew(Strip(Group1(text, m)))
            ELSE Pattern4(RegexSearch(PurposeReversedKeyword, text))
        Pattern2(m) ==
            IF m.ok THEN _reverse_hebrew(RStripSet(Strip(Group1(text, m)), {"."}))
            ELSE Pattern3(RegexSearch(PurposeReversedColon, text))
        Pattern1(m) ==
            IF m.ok THEN Strip(Group1(text, m))
            ELSE Pattern2(RegexSearch(PurposeReversedIs, text))
    IN  Pattern1(RegexSearch(PurposeNormal, text))

_score_table(col_indices) == Cardinality(STRONG_FIELDS \cap DOMAIN col_indices)

\* a mapped cell holding more than 100 characters (Q&A text)
HasLongCell(row, col_indices) ==
    \E f \in DOMAIN col_indices :
        /\ col_indices[f] < Len(row)
        /\ row[col_indices[f] + 1] # None
        /\ row[col_indices[f] + 1] # <<>>
        /\ Len(Strip(row[col_indices[f] + 1])) > 100

\* raw_val.split("/", 1)
SplitSlash(raw_val) ==
    LET Halves(at) ==
            <<SubSeq(raw_val, 1, at - 1), SubSeq(raw_val, at + 1, Len(raw_val))>>
    IN  Halves(FindFrom(raw_val, <<"/">>, 1))

\* the plot dict of one data row: the combined column first, then the others
PlotOfRow(row, col_indices) ==
    LET Split(halves) == ("gush" :> Strip(halves[1])) @@ ("helka" :> Strip(halves[2]))
        Combined(raw_val) ==
            IF raw_val # None /\ Contains(raw_val, <<"/">>)
            THEN Split(SplitSlash(raw_val))
            ELSE ("gush" :> raw_val) @@ ("helka" :> raw_val)
        Regular(fields) ==
            [f \in fields |-> _clean_cell_plot(row[col_indices[f] + 1])]
    IN  Regular({f \in DOMAIN col_indices \ {"gush_helka"} : col_indices[f] < Len(row)})
        @@ (IF "gush_helka" \in DOMAIN col_indices
               /\ col_indices["gush_helka"] < Len(row)
            THEN Combined(_clean_cell_plot(row[col_indices["gush_helka"] + 1]))
            ELSE EmptyDict)

\* "only include rows with at least some data"
RetainPlot(plot) == \E f \in DOMAIN plot : plot[f] # None

RECURSIVE ParsePlotRows(_, _, _)
ParsePlotRows(table, r, col_indices) ==
    IF r > Len(table) THEN <<>>
    ELSE LET Keep(plot) ==
                 IF RetainPlot(plot)
                 THEN <<plot>> \o ParsePlotRows(table, r + 1, col_indices)
                 ELSE ParsePlotRows(table, r + 1, col_indices)
         IN  IF IsEmptyRow(table[r]) \/ HasLongCell(table[r], col_indices)
             THEN ParsePlotRows(table, r + 1, col_indices)
             ELSE Keep(PlotOfRow(table[r], col_indices))

\* a table is taken with a strong field, or with mitham and one more field
AcceptsTable(col_indices) ==
    \/ _score_table(col_indices) >= MIN_KEY_COLUMNS
    \/ ("mitham" \in DOMAIN col_indices /\ Cardinality(DOMAIN col_indices) >= 2)

_parse_plot_table(table) ==
    IF table = <<>> \/ Len(table) < 2 THEN [plots |-> <<>>, score |-> 0]
    ELSE LET Parse(col_indices) ==
                 IF ~AcceptsTable(col_indices) THEN [plots |-> <<>>, score |-> 0]
                 ELSE [plots |-> ParsePlotRows(table, 2, col_indices),
                       score |-> _score_table(col_indices)]
         IN  Parse(_find_column_indices(table[1]))

-----------------------------------------------------------------------------
(* The PDF library as the extractors see it.  An open pdf is a record       *)
(* [pages, fault]: pages is the sequence of [text, tables] of its pages and  *)
(* fault names the one library operation that raises on this document        *)
(* (none, the open, or extract_text / extract_tables of one page).           *)
(* Page indices are 0-based as in the source.                                *)

NoFault == [op |-> "none", page |-> 0]

TextRaises(pdf, i) == pdf.fault = [op |-> "text", page |-> i]

TablesRaises(pdf, i) == pdf.fault = [op |-> "tables", page |-> i]

\* page.extract_text() or ""
TextOrEmpty(pdf, i) ==
    IF pdf.pages[i + 1].text = None THEN <<>> ELSE pdf.pages[i + 1].text

\* str(e) of the exception each library operation raises
OpenError == <<"open failed">>
TextError == <<"extract_text failed">>
TablesError == <<"extract_tables failed">>
NoError == <<>>

\* the page operations performed so far: <<operation, page index>>
TextOp(i) == <<"text", i>>
TablesOp(i) == <<"tables", i>>

-----------------------------------------------------------------------------
(* building_rights_extractor.py: functions over the open pdf.  Each returns  *)
(* its value together with the exception raised inside it (NoError when it   *)
(* returned) and the page operations it performed.                           *)

\* any(kw in text for kw in SECTION_KEYWORDS)
HasSection(text) ==
    \E k \in 1..Len(SECTION_KEYWORDS) : Contains(text, SECTION_KEYWORDS[k])

\* first status keyword, in dict order, contained in the text
RECURSIVE StatusFrom(_, _)
StatusFrom(text, k) ==
    IF k > Len(STATUS_KEYWORDS) THEN None
    ELSE IF Contains(text, STATUS_KEYWORDS[k].kw) THEN STATUS_KEYWORDS[k].normalized
    ELSE StatusFrom(text, k + 1)

RECURSIVE FindSection5From(_, _, _, _)
FindSection5From(pdf, page_idx, found, ops) ==
    IF page_idx >= Min(Len(pdf.pages), MAX_PAGES_TO_SCAN)
    THEN [found |-> found, raised |-> NoError, ops |-> ops]
    ELSE IF TextRaises(pdf, page_idx)
    THEN [found |-> found, raised |-> TextError, ops |-> ops \cup {TextOp(page_idx)}]
    ELSE LET text == TextOrEmpty(pdf, page_idx)
             entry == [page_idx |-> page_idx, status |-> StatusFrom(text, 1)]
         IN  FindSection5From(pdf, page_idx + 1,
                              IF HasSection(text) THEN Append(found, entry) ELSE found,
                              ops \cup {TextOp(page_idx)})

_find_section5_pages(pdf) == FindSection5From(pdf, 0, <<>>, {})

\* index (0-based) of the first row that is not header-like, 0 when there is none
RECURSIVE DataStart(_, _)
DataStart(next_table, row_idx) ==
    IF row_idx >= Len(next_table) THEN 0
    ELSE IF ~_is_header_row(next_table[row_idx + 1]) THEN row_idx
    ELSE DataStart(next_table, row_idx + 1)

\* next_table[data_start:]
ContinuationRows(next_table) ==
    SubSeq(next_table, DataStart(next_table, 0) + 1, Len(next_table))

\* a loop that goes on to the page after a new Section header
NoNewSection(next_text) == FALSE

\* "if any(kw in next_text for kw in SECTION_KEYWORDS): break"
NewSection(next_text) == HasSection(next_text)

RECURSIVE ContinuationFrom(_, _, _, _, _)
ContinuationFrom(pdf, next_idx, stop, num_cols, acc) ==
    IF next_idx >= stop
    THEN [table |-> acc.table, raised |-> NoError, ops |-> acc.ops]
    ELSE IF TextRaises(pdf, next_idx)
    THEN [table |-> <<>>, raised |-> TextError,
          ops |-> acc.ops \cup {TextOp(next_idx)}]
    ELSE IF NewSection(TextOrEmpty(pdf, next_idx))
    THEN [table |-> acc.table, raised |-> NoError,
          ops |-> acc.ops \cup {TextOp(next_idx)}]
    ELSE IF TablesRaises(pdf, next_idx)
    THEN [table |-> <<>>, raised |-> TablesError,
          ops |-> acc.ops \cup {TextOp(next_idx), TablesOp(next_idx)}]
    ELSE LET next_table == _select_rights_table(pdf.pages[next_idx + 1].tables)
             ops == acc.ops \cup {TextOp(next_idx), TablesOp(next_idx)}
         IN  IF next_table = <<>> \/ MaxRowLen(next_table) # num_cols
             THEN [table |-> acc.table, raised |-> NoError, ops |-> ops]
             ELSE ContinuationFrom(pdf, next_idx + 1, stop, num_cols,
                      [table |-> acc.table \o ContinuationRows(next_table),
                       ops |-> ops])

_extract_table_from_pages(pdf, start_page_idx) ==
    IF TablesRaises(pdf, start_page_idx)
    THEN [table |-> <<>>, raised |-> TablesError, ops |-> {TablesOp(start_page_idx)}]
    ELSE LET main_table == _select_rights_table(pdf.pages[start_page_idx + 1].tables)
         IN  IF main_table = <<>>
             THEN [table |-> <<>>, raised |-> NoError,
                   ops |-> {TablesOp(start_page_idx)}]
             ELSE ContinuationFrom(pdf, start_page_idx + 1,
                      Min(Len(pdf.pages), start_page_idx + 15),
                      MaxRowLen(main_table),
                      [table |-> main_table, ops |-> {TablesOp(start_page_idx)}])

-----------------------------------------------------------------------------
(* The documents explored.  A document is a sequence of page kinds; each     *)
(* kind stands for one concrete page (text as extract_text returns it, in    *)
(* the transliteration above, and the tables as extract_tables returns       *)
(* them).  Brochure pages are fed to extract, plan pages to                  *)
(* extract_building_rights.                                                  *)

MaxDocPages == 2

PlotPageNames == {"blank", "nonland", "announce", "plan", "table", "weak", "gushtext", "migrash", "mixed"}

PlotPage(name) ==
    CASE name = "blank" ->
        [text |-> None,
         tables |-> <<>>]
      [] name = "nonland" ->
        [text |-> <<"m", "k", "r", "z", " ", "k", "r", "y", "y", "h">>,
         tables |-> <<<<<<<<"g", "w", "S">>, <<"H", "l", "q", "h">>>>,
                       <<<<"2", "1", "9", "9">>, <<"3", "9">>>>>>>>]
      [] name = "announce" ->
        [text |-> <<"d", "H", "y", "y", "t", " ", "m", "w", "E", "d", "y", "M", " ", "t", "k", "n", "y", "t", " ", "5", "5", "-", "6", "6", "7", "\n", "y", "y", "E", "w", "d", " ", "h", "m", "g", "r", "S", ":", " ", "m", "g", "w", "r", "y", "M">>,
         tables |-> <<<<<<<<"g", "w", "S">>, <<"H", "l", "q", "h">>>>,
                       <<<<"7">>, <<"8">>>>>>>>]
      [] name = "plan" ->
        [text |-> <<"t", "k", "n", "y", "t", " ", "m", "s", " ", "1", "2", "-", "3", "4", "5", "6", " ", "y", "y", "E", "w", "d", " ", "h", "q", "r", "q", "E", ":", " ", "m", "s", "H", "r">>,
         tables |-> <<>>]
      [] name = "table" ->
        [text |-> <<>>,
         tables |-> <<<<<<<<"g", "w", "S">>, <<"H", "l", "q", "h">>>>,
                       <<<<"2", "1", "9", "9">>, <<"3", "9">>>>,
                       <<None, None>>>>>>]
      [] name = "weak" ->
        [text |-> <<>>,
         tables |-> <<<<<<<<"m", "t", "H", "M">>, <<"S", "T", "H">>>>,
                       <<<<"-">>, <<"5", "0", "0">>>>>>,
                     <<<<<<"x">>>>>>>>]
      [] name = "gushtext" ->
        [text |-> <<"b", "g", "w", "S", " ", "1", "0", " ", "H", "l", "q", "h", " ", "5">>,
         tables |-> <<>>]
      [] name = "migrash" ->
        [text |-> <<"t", "k", "n", "y", "t", " ", "1", "/", "2", "/", "2", "0", "2", "4">>,
         tables |-> <<<<<<<<"m", "g", "r", "S">>, <<"S", "T", "H">>>>,
                       <<<<"1", "0", "1">>, <<"5", "0", "0">>>>,
                       <<<<>>, None>>>>>>]
      [] name = "mixed" ->
        [text |-> <<"b", "g", "w", "S", " ", "1", "0", " ", "H", "l", "q", "h", " ", "5">>,
         tables |-> <<<<<<<<"g", "w", "S">>, <<"H", "l", "q", "h">>>>,
                       <<<<"2", "1", "9", "9">>, <<"3", "9">>>>,
                       <<<<"-">>, <<"4", "0">>>>>>>>]

RightsPageNames == {"blank", "sec", "small", "unmapped", "norows", "good", "cont", "cont_hdr", "cont_rep", "wide"}

RightsPage(name) ==
    CASE name = "blank" ->
        [text |-> None,
         tables |-> <<>>]
      [] name = "sec" ->
        [text |-> <<"T", "b", "l", "t", " ", "z", "k", "w", "y", "w", "t", " ", "m", "c", "b", " ", "m", "w", "c", "E">>,
         tables |-> <<>>]
      [] name = "small" ->
        [text |-> <<"t", "w", "y", "w", "k", "z", " ", "t", "l", "b", "T", " ", "r", "S", "w", "A", "m", " ", "b", "c", "m">>,
         tables |-> <<<<<<<<"d", "w", "E", "y">>, <<"t", "y", "s", "k", "t">>>>,
                       <<<<"a">>, <<"1">>>>>>>>]
      [] name = "unmapped" ->
        [text |-> <<"T", "b", "l", "t", " ", "z", "k", "w", "y", "w", "t">>,
         tables |-> <<<<<<<<"a">>, <<"b">>, <<"c">>, <<"d">>, <<"e">>>>,
                       <<<<"1">>, <<"2">>, <<"3">>, <<"4">>, <<"5">>>>,
                       <<<<"1">>, <<"2">>, <<"3">>, <<"4">>, <<"5">>>>>>>>]
      [] name = "norows" ->
        [text |-> <<"T", "b", "l", "t", " ", "z", "k", "w", "y", "w", "t", " ", "m", "c", "b", " ", "m", "A", "w", "S", "r">>,
         tables |-> <<<<<<<<"a">>, <<"b">>, <<"t", "y", "s", "k", "t">>, <<"d">>, <<"e">>>>,
                       <<<<"1">>, <<"2">>, <<"x">>, None, None>>,
                       <<<<"3">>, <<"4">>, <<"(", "1", ")">>, None, None>>>>>>]
      [] name = "good" ->
        [text |-> <<"T", "b", "l", "t", " ", "z", "k", "w", "y", "w", "t", " ", "m", "c", "b", " ", "m", "w", "c", "E">>,
         tables |-> <<<<<<<<"d", "w", "E", "y">>, <<"b">>, <<"t", "y", "s", "k", "t">>, <<"d">>, <<"e">>>>,
                       <<<<"M", "y", "r", "w", "g", "m">>, <<"2">>, <<"4", "0">>, None, None>>,
                       <<None, None, None, None, None>>>>>>]
      [] name = "cont" ->
        [text |-> <<>>,
         tables |-> <<<<<<<<"r", "H", "s", "m">>, <<"1">>, <<"(", "2", ")", " ", "3", "5">>, <<"7">>, None>>,
                       <<<<"a">>, <<"b">>, <<"c">>, <<"d">>, <<"e">>>>,
                       <<<<>>, <<>>, <<>>, <<>>, <<>>>>>>>>]
      [] name = "cont_hdr" ->
        [text |-> <<"h", "m", "S", "K">>,
         tables |-> <<<<<<<<"a">>, <<"b">>, <<"c">>, <<"d">>, <<"e">>>>,
                       <<<<"a">>, None, None, None, None>>,
                       <<None, None, None, None, None>>>>>>]
      [] name = "cont_rep" ->
        [text |-> <<>>,
         tables |-> <<<<<<<<"d", "w", "E", "y">>, <<"b">>, <<"t", "y", "s", "k", "t">>, <<"d">>, <<"e">>>>,
                       <<<<"r", "H", "s", "m">>, <<"3">>, <<"5", "0">>, None, None>>,
                       <<None, <<"4">>, <<"6", "0">>, None, None>>>>>>]
      [] name = "wide" ->
        [text |-> <<>>,
         tables |-> <<<<<<<<"a">>, <<"b">>, <<"c">>, <<"d">>, <<"e">>, <<"f">>>>,
                       <<<<"1">>, <<"2">>, <<"3">>, <<"4">>, <<"5">>, <<"6">>>>,
                       <<<<"7">>, <<"8">>, <<"9">>, <<"1">>, <<"2">>, <<"3">>>>>>>>]

-----------------------------------------------------------------------------
(* One call of an entry point as a state machine.                            *)

VARIABLES
    fn,               \* the entry point called: "extract" or "extract_building_rights"
    doc,              \* the PDF at pdf_path: its sequence of page kinds
    exists,           \* pdf_path.exists()
    fault,            \* the library operation that raises on this document
    max_pages,        \* self.max_pages of the TenderPDFExtractor
    plan_number,      \* the plan_number argument of extract_building_rights
    pc,               \* position of the call
    handle,           \* the PDF handle of this call: "none", "open" or "closed"
    result,           \* the result dict
    raised,           \* the exception raised inside the call (NoError when none)
    page_idx,         \* loop variable of the page scan
    all_text_pages,   \* texts of the pages scanned so far
    best_table_score, \* score of the table whose plots are recorded
    section_pages,    \* what _find_section5_pages returned
    section,          \* position in section_pages (1-based)
    ops,              \* page operations performed by this call
    plan_searches,    \* number of _extract_plan_number calls of this call
    outcomes,         \* what each Section-5 page tried so far gave
    raw_table,        \* what _extract_table_from_pages returned last
    prev,             \* summary of the previous call of the batch
    applied,          \* a leaf utility applied on its own: its name and argument
    ret               \* what that application returned

vars == <<fn, doc, exists, fault, max_pages, plan_number, pc, handle, result,
          raised, page_idx, all_text_pages, best_table_score, section_pages,
          section, ops, plan_searches, outcomes, raw_table, prev, applied, ret>>

inputs == <<fn, doc, exists, fault, max_pages, plan_number>>

scan_locals == <<page_idx, all_text_pages, best_table_score>>

rights_locals == <<section_pages, section, outcomes, raw_table>>

leaf == <<applied, ret>>

NotApplied == [f |-> "none", arg |-> <<>>]

RECURSIVE DocsOfLen(_, _)
DocsOfLen(names, n) ==
    IF n = 0 THEN {<<>>}
    ELSE {Append(d, name) : d \in DocsOfLen(names, n - 1), name \in names}

Docs(names) == UNION {DocsOfLen(names, n) : n \in 0..MaxDocPages}

Faults(d) ==
    {NoFault, [op |-> "open", page |-> 0]}
    \cup {[op |-> o, page |-> i] : o \in {"text", "tables"}, i \in 0..(Len(d) - 1)}

\* the pdf object pdfplumber.open returns for the document
Pdf ==
    [pages |-> [i \in 1..Len(doc) |->
                   IF fn = "extract" THEN PlotPage(doc[i]) ELSE RightsPage(doc[i])],
     fault |-> fault]

\* Path(pdf_path) and its name and stem
PdfPath == <<"pdf_path">>

\* an entry of result["errors"]: the message and the value formatted into it
Error(msg, arg) == [msg |-> msg, arg |-> arg]

\* an int held in a result field that may also hold None
PyInt(n) == <<"int", n>>

\* the inputs of one call: a missing file has no content
ChooseInputs ==
    /\ fn' \in {"extract", "extract_building_rights"}
    /\ exists' \in BOOLEAN
    /\ doc' \in IF ~exists' THEN {<<>>}
                ELSE IF fn' = "extract" THEN Docs(PlotPageNames)
                ELSE Docs(RightsPageNames)
    /\ fault' \in IF ~exists' THEN {NoFault} ELSE Faults(doc')
    /\ max_pages' \in IF fn' = "extract" THEN {1, PLOT_MAX_PAGES_TO_SCAN}
                      ELSE {PLOT_MAX_PAGES_TO_SCAN}
    /\ plan_number' \in IF fn' = "extract" THEN {None}
                        ELSE {None, <<"1", "0", "1">>}

NoPrev == [fn |-> "none", mode |-> "none", errors |-> <<>>, success |-> FALSE]

Init ==
    /\ fn \in {"extract", "extract_building_rights"}
    /\ exists \in BOOLEAN
    /\ doc \in IF ~exists THEN {<<>>}
               ELSE IF fn = "extract" THEN Docs(PlotPageNames)
               ELSE Docs(RightsPageNames)
    /\ fault \in IF ~exists THEN {NoFault} ELSE Faults(doc)
    /\ max_pages \in IF fn = "extract" THEN {1, PLOT_MAX_PAGES_TO_SCAN}
                     ELSE {PLOT_MAX_PAGES_TO_SCAN}
    /\ plan_number \in IF fn = "extract" THEN {None} ELSE {None, <<"1", "0", "1">>}
    /\ pc = "call"
    /\ handle = "none"
    /\ result = None
    /\ raised = NoError
    /\ page_idx = 0
    /\ all_text_pages = <<>>
    /\ best_table_score = 0
    /\ section_pages = <<>>
    /\ section = 1
    /\ ops = {}
    /\ plan_searches = 0
    /\ outcomes = <<>>
    /\ raw_table = None
    /\ prev = NoPrev
    /\ applied = NotApplied
    /\ ret = None

\* a block that leaves the handle as it found it
WithoutExit(h) == h

\* leaving the "with pdfplumber.open(...) as pdf" block, normally or not
WithExit(h) == "closed"

\* a handler that lets the exception through
NotCaught(e) == FALSE

\* "except Exception" catches whatever the library raises
Caught(e) == TRUE

-----------------------------------------------------------------------------
(* TenderPDFExtractor.extract *)

\* min(len(pdf.pages), self.max_pages)
PagesToScan == Min(Len(doc), max_pages)

RECURSIVE FirstPagesText(_, _, _)
FirstPagesText(pdf, i, n) ==
    IF i >= n THEN <<>>
    ELSE TextOrEmpty(pdf, i) \o <<"\n">> \o FirstPagesText(pdf, i + 1, n)

\* the first NON_LAND_KEYWORDS entry contained in the text, None when none is
RECURSIVE NonLandFrom(_, _)
NonLandFrom(first_pages_text, k) ==
    IF k > Len(NON_LAND_KEYWORDS) THEN None
    ELSE IF Contains(first_pages_text, NON_LAND_KEYWORDS[k]) THEN NON_LAND_KEYWORDS[k]
    ELSE NonLandFrom(first_pages_text, k + 1)

\* a quick check that matches nothing
NoNonLandMatch(first_pages_text) == None

NonLandMatch(first_pages_text) == NonLandFrom(first_pages_text, 1)

\* a success flag that looks at the plots only
SuccessPlotsOnly(r) == r.plots # <<>>

\* result["success"] as extract determines it
Success(r) == r.plots # <<>> \/ r.taba # None

\* an except clause that hands back a result emptied of what was recorded
ExtractFailedCleared(r, e) ==
    [r EXCEPT !.plots = <<>>, !.taba = None, !.purpose = None,
              !.errors = Append(@, Error("pdfplumber extraction failed: ", e))]

\* the except clause of extract
ExtractFailed(r, e) ==
    [r EXCEPT !.errors = Append(@, Error("pdfplumber extraction failed: ", e))]

ExtractCall ==
    /\ pc = "call"
    /\ fn = "extract"
    /\ LET fresh == [plots |-> <<>>, taba |-> None, purpose |-> None,
                     extraction_method |-> "pdfplumber", source_file |-> PdfPath,
                     success |-> FALSE, errors |-> <<>>]
       IN  IF ~exists
           THEN /\ result' = [fresh EXCEPT
                                 !.errors = Append(@, Error("File not found: ", PdfPath))]
                /\ pc' = "returned"
           ELSE /\ result' = fresh
                /\ pc' = "open"
    /\ UNCHANGED <<inputs, leaf, handle, raised, scan_locals, rights_locals, ops,
                   plan_searches, prev>>

ExtractOpen ==
    /\ pc = "open"
    /\ fn = "extract"
    /\ IF fault.op = "open"
       THEN /\ raised' = OpenError
            /\ pc' = "except"
            /\ UNCHANGED handle
       ELSE /\ handle' = "open"
            /\ pc' = "quick"
            /\ UNCHANGED raised
    /\ UNCHANGED <<inputs, leaf, result, scan_locals, rights_locals, ops, plan_searches,
                   prev>>

\* the score a scan starts from, were it kept from the call before
BestScoreCarried == best_table_score

\* "best_table_score = 0" before the scan loop
BestScoreAtStart == 0

\* the quick check of the first two pages against NON_LAND_KEYWORDS, and the
\* initialisation of the scan that follows it
QuickCheck ==
    /\ pc = "quick"
    /\ fn = "extract"
    /\ LET Matched(kw) ==
               IF kw # None
               THEN /\ result' = [result EXCEPT !.errors =
                           Append(@, Error("non_land_tender: matched ", kw))]
                    /\ handle' = WithExit(handle)
                    /\ pc' = "finalize"
                    /\ UNCHANGED scan_locals
               ELSE /\ all_text_pages' = <<>>
                    /\ best_table_score' = BestScoreAtStart
                    /\ page_idx' = 0
                    /\ pc' = IF PagesToScan > 0 THEN "scan" ELSE "fallback"
                    /\ UNCHANGED <<result, handle>>
           Check(pdf, n) ==
               IF \E i \in 0..(n - 1) : TextRaises(pdf, i)
               THEN /\ ops' = ops \cup {TextOp(i) : i \in 0..fault.page}
                    /\ raised' = TextError
                    /\ handle' = WithExit(handle)
                    /\ pc' = "except"
                    /\ UNCHANGED <<result, scan_locals>>
               ELSE /\ ops' = ops \cup {TextOp(i) : i \in 0..(n - 1)}
                    /\ UNCHANGED raised
                    /\ Matched(NonLandMatch(FirstPagesText(pdf, 0, n)))
       IN  Check(Pdf, Min(2, PagesToScan))
    /\ UNCHANGED <<inputs, leaf, rights_locals, plan_searches, prev>>

\* a search made whether or not a plan number is already recorded
SearchAlways(taba) == TRUE

\* 'if result["taba"] is None:', the guard of both plan-number searches
PlanUnset(taba) == taba = None

\* the loop over the tables of one page: a table replaces the recorded plots
\* when it has plots and scores above the best so far
RECURSIVE BestPlots(_, _, _)
BestPlots(tables, t, best) ==
    IF t > Len(tables) THEN best
    ELSE LET Compare(parsed) ==
                 IF parsed.plots # <<>> /\ parsed.score > best.score
                 THEN BestPlots(tables, t + 1, parsed)
                 ELSE BestPlots(tables, t + 1, best)
         IN  Compare(_parse_plot_table(tables[t]))

\* p.get(key)
DictGet(p, key) == IF key \in DOMAIN p THEN p[key] ELSE None

\* p.get(key) in (None, "-")
Missing(p, key) == DictGet(p, key) \in {None, <<"-">>}

\* what the text fallback does to one plot of a table that lacks gush
PatchPlot(p, text_gush) ==
    LET Helka(with_gush) ==
            IF Missing(with_gush, "helka") /\ "helka" \in DOMAIN text_gush
            THEN ("helka" :> text_gush["helka"]) @@ with_gush
            ELSE with_gush
    IN  Helka(IF Missing(p, "gush")
              THEN ("gush" :> DictGet(text_gush, "gush")) @@ p
              ELSE p)

\* the text-based gush/helka fallback over the recorded plots
GushFallback(plots, combined) ==
    LET Apply(plots_missing_gush, text_gush) ==
            IF text_gush = EmptyDict THEN plots
            ELSE IF plots_missing_gush
            THEN [i \in 1..Len(plots) |-> PatchPlot(plots[i], text_gush)]
            ELSE Append(plots, text_gush)
        Check(plots_missing_gush, no_plots) ==
            IF plots_missing_gush \/ no_plots
            THEN Apply(plots_missing_gush, _extract_gush_helka_from_text(combined))
            ELSE plots
    IN  Check(plots # <<>> /\ \A i \in 1..Len(plots) : Missing(plots[i], "gush"),
              plots = <<>>)

\* truthiness of an Optional[str]
Truthy(v) == v # None /\ v # <<>>

\* one iteration of "for page_idx in range(pages_to_scan)"
ScanPage ==
    /\ pc = "scan"
    /\ fn = "extract"
    /\ page_idx < PagesToScan
    /\ LET Record(text, best, plan, purpose) ==
               /\ ops' = ops \cup {TextOp(page_idx), TablesOp(page_idx)}
               /\ all_text_pages' = Append(all_text_pages, text)
               /\ best_table_score' = best.score
               /\ result' = [result EXCEPT
                      !.plots = best.plots,
                      !.taba = IF Truthy(plan) THEN plan ELSE @,
                      !.purpose = IF Truthy(purpose) THEN purpose ELSE @]
               /\ plan_searches' = IF PlanUnset(result.taba) THEN plan_searches + 1
                                   ELSE plan_searches
               /\ page_idx' = page_idx + 1
               /\ pc' = IF page_idx + 1 < PagesToScan THEN "scan" ELSE "fallback"
               /\ UNCHANGED <<raised, handle>>
           Tables(pdf, text) ==
               IF TablesRaises(pdf, page_idx)
               THEN /\ ops' = ops \cup {TextOp(page_idx), TablesOp(page_idx)}
                    /\ raised' = TablesError
                    /\ handle' = WithExit(handle)
                    /\ pc' = "except"
                    /\ all_text_pages' = Append(all_text_pages, text)
                    /\ UNCHANGED <<result, page_idx, best_table_score, plan_searches>>
               ELSE Record(text,
                           BestPlots(pdf.pages[page_idx + 1].tables, 1,
                                     [plots |-> result.plots, score |-> best_table_score]),
                           IF PlanUnset(result.taba) THEN _extract_plan_number(text)
                           ELSE None,
                           IF result.purpose = None THEN _extract_purpose(text)
                           ELSE None)
           Page(pdf) ==
               IF TextRaises(pdf, page_idx)
               THEN /\ ops' = ops \cup {TextOp(page_idx)}
                    /\ raised' = TextError
                    /\ handle' = WithExit(handle)
                    /\ pc' = "except"
                    /\ UNCHANGED <<result, scan_locals, plan_searches>>
               ELSE Tables(pdf, TextOrEmpty(pdf, page_idx))
       IN  Page(Pdf)
    /\ UNCHANGED <<inputs, leaf, rights_locals, prev>>

\* after the scan: combined-text plan number, text-based gush/helka fallback,
\* and the end of the with block
Fallbacks ==
    /\ pc = "fallback"
    /\ fn = "extract"
    /\ LET Apply(combined, plan) ==
               result' = [result EXCEPT
                   !.taba = IF Truthy(plan) THEN plan ELSE @,
                   !.plots = GushFallback(@, combined)]
           Search(combined) ==
               Apply(combined,
                     IF PlanUnset(result.taba) THEN _extract_plan_number(combined)
                     ELSE None)
       IN  Search(Join(all_text_pages, <<"\n">>))
    /\ plan_searches' = IF PlanUnset(result.taba) THEN plan_searches + 1
                        ELSE plan_searches
    /\ handle' = WithExit(handle)
    /\ pc' = "finalize"
    /\ UNCHANGED <<inputs, leaf, raised, scan_locals, rights_locals, ops, prev>>

\* try/except around _extract_with_pdfplumber
ExtractExcept ==
    /\ pc = "except"
    /\ fn = "extract"
    /\ IF Caught(raised)
       THEN /\ result' = ExtractFailed(result, raised)
            /\ pc' = "finalize"
       ELSE /\ pc' = "escaped"
            /\ UNCHANGED result
    /\ UNCHANGED <<inputs, leaf, handle, raised, scan_locals, rights_locals, ops,
                   plan_searches, prev>>

\* "Determine success" and the return
ExtractFinalize ==
    /\ pc = "finalize"
    /\ fn = "extract"
    /\ result' = [result EXCEPT !.success = Success(result)]
    /\ pc' = "returned"
    /\ UNCHANGED <<inputs, leaf, handle, raised, scan_locals, rights_locals, ops,
                   plan_searches, prev>>

-----------------------------------------------------------------------------
(* extract_building_rights *)

DigitChar(d) == CHOOSE c \in Digits : DigitValue(c) = d

\* str(k) of a non-negative int
RECURSIVE IntToStr(_)
IntToStr(k) ==
    IF k < 10 THEN <<DigitChar(k)>>
    ELSE Append(IntToStr(k \div 10), DigitChar(k % 10))

\* {str(k): v for k, v in col_map.items()}
StrKeys(col_map) ==
    [key \in {IntToStr(k) : k \in DOMAIN col_map} |->
        col_map[CHOOSE k \in DOMAIN col_map : IntToStr(k) = key]]

\* an except clause that records the error and reports success
RightsFailedAsSuccess(r, e) ==
    [r EXCEPT !.errors = <<Error("Extraction failed: ", e)>>, !.success = TRUE]

\* the except clause of extract_building_rights
RightsFailed(r, e) == [r EXCEPT !.errors = <<Error("Extraction failed: ", e)>>]

RightsCall ==
    /\ pc = "call"
    /\ fn = "extract_building_rights"
    /\ LET fresh == [plan_number |-> IF Truthy(plan_number) THEN plan_number
                                     ELSE PdfPath,
                     status |-> None, rows |-> <<>>, source_page |-> None,
                     raw_headers |-> <<>>, column_map |-> EmptyDict,
                     extraction_method |-> "pdfplumber_lattice",
                     success |-> FALSE, errors |-> <<>>]
       IN  IF ~exists
           THEN /\ result' = [fresh EXCEPT
                                 !.errors = <<Error("File not found: ", PdfPath)>>]
                /\ pc' = "returned"
           ELSE /\ result' = fresh
                /\ pc' = "open"
    /\ UNCHANGED <<inputs, leaf, handle, raised, scan_locals, rights_locals, ops,
                   plan_searches, prev>>

RightsOpen ==
    /\ pc = "open"
    /\ fn = "extract_building_rights"
    /\ IF fault.op = "open"
       THEN /\ raised' = OpenError
            /\ pc' = "except"
            /\ UNCHANGED handle
       ELSE /\ handle' = "open"
            /\ pc' = "find"
            /\ UNCHANGED raised
    /\ UNCHANGED <<inputs, leaf, result, scan_locals, rights_locals, ops, plan_searches,
                   prev>>

\* Step 1: find Section 5
FindSection5 ==
    /\ pc = "find"
    /\ fn = "extract_building_rights"
    /\ LET Found(found) ==
               /\ ops' = ops \cup found.ops
               /\ IF found.raised # NoError
                  THEN /\ raised' = found.raised
                       /\ handle' = WithExit(handle)
                       /\ pc' = "except"
                       /\ UNCHANGED <<result, section_pages, section>>
                  ELSE IF found.found = <<>>
                  THEN /\ result' = [result EXCEPT !.errors =
                              <<Error("Section 5 not found in PDF", <<>>)>>]
                       /\ section_pages' = found.found
                       /\ handle' = WithExit(handle)
                       /\ pc' = "returned"
                       /\ UNCHANGED <<raised, section>>
                  ELSE /\ section_pages' = found.found
                       /\ section' = 1
                       /\ pc' = "section"
                       /\ UNCHANGED <<result, raised, handle>>
       IN  Found(_find_section5_pages(Pdf))
    /\ UNCHANGED <<inputs, leaf, scan_locals, outcomes, raw_table, plan_searches, prev>>

\* a search that ends at a Section-5 page without usable table
EndSearch(more) == "after"

\* "continue": on to the next Section-5 page, or past the loop after the last
ContinueSearch(more) == more

\* a rowless parse whose merged headers and column map reach the result
HeadersKept(located, parsed) ==
    [located EXCEPT !.raw_headers = parsed.headers,
                    !.column_map = StrKeys(parsed.column_map)]

\* "if rows:" not taken: nothing of the parse is written to the result
RowlessParse(located, parsed) == located

\* one iteration of "for section in section_pages": steps 2 and 3
TrySection ==
    /\ pc = "section"
    /\ fn = "extract_building_rights"
    /\ section <= Len(section_pages)
    /\ LET more == IF section < Len(section_pages) THEN "section" ELSE "after"
           Parsed(located, parsed) ==
               IF parsed.rows # <<>>
               THEN /\ result' = [located EXCEPT
                           !.rows = parsed.rows,
                           !.raw_headers = parsed.headers,
                           !.column_map = StrKeys(parsed.column_map),
                           !.success = TRUE]
                    /\ outcomes' = Append(outcomes, "rows")
                    /\ pc' = "after"
                    /\ UNCHANGED <<raised, handle, section>>
               ELSE /\ result' = RowlessParse(located, parsed)
                    /\ outcomes' = Append(outcomes,
                           IF parsed.column_map = EmptyDict THEN "no_columns"
                           ELSE "no_rows")
                    /\ section' = section + 1
                    /\ pc' = more
                    /\ UNCHANGED <<raised, handle>>
           Table(located, extracted) ==
               /\ ops' = ops \cup extracted.ops
               /\ raw_table' = IF extracted.raised # NoError THEN raw_table
                               ELSE IF extracted.table = <<>> THEN None
                               ELSE extracted.table
               /\ IF extracted.raised # NoError
                  THEN /\ result' = located
                       /\ raised' = extracted.raised
                       /\ handle' = WithExit(handle)
                       /\ pc' = "except"
                       /\ UNCHANGED <<section, outcomes>>
                  ELSE IF extracted.table = <<>>
                  THEN /\ result' = located
                       /\ outcomes' = Append(outcomes, "no_table")
                       /\ section' = section + 1
                       /\ pc' = ContinueSearch(more)
                       /\ UNCHANGED <<raised, handle>>
                  ELSE Parsed(located, _parse_table(extracted.table))
           Section(this) ==
               Table([result EXCEPT !.status = this.status,
                                    !.source_page = PyInt(this.page_idx + 1)],
                     _extract_table_from_pages(Pdf, this.page_idx))
       IN  Section(section_pages[section])
    /\ UNCHANGED <<inputs, leaf, scan_locals, section_pages, plan_searches, prev>>

\* after the loop: the error of a search that produced no rows, and the end of
\* the with block
AfterSections ==
    /\ pc = "after"
    /\ fn = "extract_building_rights"
    /\ result' = IF ~result.success
                 THEN [result EXCEPT !.errors =
                          <<Error("Table found but no data rows parsed", <<>>)>>]
                 ELSE result
    /\ handle' = WithExit(handle)
    /\ pc' = "returned"
    /\ UNCHANGED <<inputs, leaf, raised, scan_locals, rights_locals, ops, plan_searches,
                   prev>>

RightsExcept ==
    /\ pc = "except"
    /\ fn = "extract_building_rights"
    /\ IF Caught(raised)
       THEN /\ result' = RightsFailed(result, raised)
            /\ pc' = "returned"
       ELSE /\ pc' = "escaped"
            /\ UNCHANGED result
    /\ UNCHANGED <<inputs, leaf, handle, raised, scan_locals, rights_locals, ops,
                   plan_searches, prev>>

-----------------------------------------------------------------------------
(* A batch driver calling the entry points on one document after another. *)

\* which way a call of extract_building_rights ended
Mode ==
    IF fn # "extract_building_rights" THEN "plots"
    ELSE IF ~exists THEN "file_not_found"
    ELSE IF raised # NoError THEN "library_failure"
    ELSE IF section_pages = <<>> THEN "no_section"
    ELSE IF result.success THEN "rows"
    ELSE IF \E i \in 1..Len(outcomes) : outcomes[i] = "no_rows" THEN "no_rows"
    ELSE IF \E i \in 1..Len(outcomes) : outcomes[i] = "no_columns" THEN "no_columns"
    ELSE "no_table"

NextDoc ==
    /\ pc = "returned"
    /\ prev' = [fn |-> fn, mode |-> Mode, errors |-> result.errors,
                success |-> result.success]
    /\ ChooseInputs
    /\ pc' = "call"
    /\ handle' = "none"
    /\ result' = None
    /\ raised' = NoError
    /\ page_idx' = 0
    /\ all_text_pages' = <<>>
    /\ best_table_score' = 0
    /\ section_pages' = <<>>
    /\ section' = 1
    /\ ops' = {}
    /\ plan_searches' = 0
    /\ outcomes' = <<>>
    /\ raw_table' = None
    /\ UNCHANGED leaf

Next ==
    \/ ExtractCall
    \/ ExtractOpen
    \/ QuickCheck
    \/ ScanPage
    \/ Fallbacks
    \/ ExtractExcept
    \/ ExtractFinalize
    \/ RightsCall
    \/ RightsOpen
    \/ FindSection5
    \/ TrySection
    \/ AfterSections
    \/ RightsExcept

Spec == Init /\ [][Next]_vars

NextBatch == Next \/ NextDoc

SpecBatch == Init /\ [][NextBatch]_vars

Returned == pc = "returned"

-----------------------------------------------------------------------------
(* The same call made a second time: same extractor instance, same path,    *)
(* same plan_number, same document. Only what belongs to one call (its      *)
(* handle, the exception in flight, the record of its operations) starts    *)
(* anew; every variable of the first call is left as that call left it.     *)

CallAgain ==
    /\ pc = "returned"
    /\ prev = NoPrev
    /\ prev' = [fn |-> fn, mode |-> Mode, errors |-> result.errors,
                success |-> result.success, result |-> result]
    /\ pc' = "call"
    /\ handle' = "none"
    /\ raised' = NoError
    /\ ops' = {}
    /\ plan_searches' = 0
    /\ outcomes' = <<>>
    /\ raw_table' = None
    /\ UNCHANGED <<inputs, leaf, result, scan_locals, section_pages, section>>

NextRepeat == Next \/ CallAgain

SpecRepeat == Init /\ [][NextRepeat]_vars

-----------------------------------------------------------------------------
(* extract_building_rights alone, on plan documents long enough for a table  *)
(* that continues over several pages and for pages after the continuation    *)
(* has stopped.                                                              *)

MaxPlanPages == 4

\* the kinds of page that start, continue or stop a table
ContinuationKinds == {"blank", "sec", "good", "cont", "cont_hdr", "cont_rep", "wide"}

InitRights ==
    /\ fn = "extract_building_rights"
    /\ exists \in BOOLEAN
    /\ doc \in IF ~exists THEN {<<>>}
               ELSE UNION {DocsOfLen(ContinuationKinds, n) : n \in 0..MaxPlanPages}
    /\ fault \in IF ~exists THEN {NoFault} ELSE Faults(doc)
    /\ max_pages = PLOT_MAX_PAGES_TO_SCAN
    /\ plan_number = None
    /\ pc = "call"
    /\ handle = "none"
    /\ result = None
    /\ raised = NoError
    /\ page_idx = 0
    /\ all_text_pages = <<>>
    /\ best_table_score = 0
    /\ section_pages = <<>>
    /\ section = 1
    /\ ops = {}
    /\ plan_searches = 0
    /\ outcomes = <<>>
    /\ raw_table = None
    /\ prev = NoPrev
    /\ applied = NotApplied
    /\ ret = None

NextRights ==
    \/ RightsCall
    \/ RightsOpen
    \/ FindSection5
    \/ TrySection
    \/ AfterSections
    \/ RightsExcept

SpecRights == InitRights /\ [][NextRights]_vars

-----------------------------------------------------------------------------
(* extract_building_rights on plans that reach the page cap of the Section-5 *)
(* search: blank pages up to the cap, then a short tail of pages that start  *)
(* or continue a table.                                                      *)

MaxTailPages == 2

BlankPages(n) == [i \in 1..n |-> "blank"]

LongDocs ==
    {BlankPages(n) \o tail :
        n \in {MAX_PAGES_TO_SCAN - 2, MAX_PAGES_TO_SCAN - 1},
        tail \in UNION {DocsOfLen(ContinuationKinds, k) : k \in 0..MaxTailPages}}

InitLong ==
    /\ fn = "extract_building_rights"
    /\ exists \in BOOLEAN
    /\ doc \in IF ~exists THEN {<<>>} ELSE LongDocs
    /\ fault \in IF ~exists THEN {NoFault} ELSE Faults(doc)
    /\ max_pages = PLOT_MAX_PAGES_TO_SCAN
    /\ plan_number = None
    /\ pc = "call"
    /\ handle = "none"
    /\ result = None
    /\ raised = NoError
    /\ page_idx = 0
    /\ all_text_pages = <<>>
    /\ best_table_score = 0
    /\ section_pages = <<>>
    /\ section = 1
    /\ ops = {}
    /\ plan_searches = 0
    /\ outcomes = <<>>
    /\ raw_table = None
    /\ prev = NoPrev
    /\ applied = NotApplied
    /\ ret = None

SpecLong == InitLong /\ [][NextRights]_vars

-----------------------------------------------------------------------------
(* extract_building_rights on plans with several Section-5 pages: pages that *)
(* name the section without a table, with a table too small, with a table    *)
(* whose columns are not mapped, with a table without data rows, and with    *)
(* the rights table.                                                         *)

MaxSectionPages == 3

SectionKinds == {"blank", "sec", "small", "unmapped", "norows", "good"}

InitRetry ==
    /\ fn = "extract_building_rights"
    /\ exists \in BOOLEAN
    /\ doc \in IF ~exists THEN {<<>>}
               ELSE UNION {DocsOfLen(SectionKinds, n) : n \in 0..MaxSectionPages}
    /\ fault \in IF ~exists THEN {NoFault} ELSE Faults(doc)
    /\ max_pages = PLOT_MAX_PAGES_TO_SCAN
    /\ plan_number = None
    /\ pc = "call"
    /\ handle = "none"
    /\ result = None
    /\ raised = NoError
    /\ page_idx = 0
    /\ all_text_pages = <<>>
    /\ best_table_score = 0
    /\ section_pages = <<>>
    /\ section = 1
    /\ ops = {}
    /\ plan_searches = 0
    /\ outcomes = <<>>
    /\ raw_table = None
    /\ prev = NoPrev
    /\ applied = NotApplied
    /\ ret = None

SpecRetry == InitRetry /\ [][NextRights]_vars

\* the call that returned is the second one on its document
SecondCall == "result" \in DOMAIN prev

-----------------------------------------------------------------------------
(* The leaf utilities applied on their own: the argument is drawn when the   *)
(* application starts, and one step applies the function to it.              *)

MaxTextLen == 4

MaxRowCells == 4

MaxNumber == 30

\* the length of a row in which exactly 30% of the cells can be numeric
ThresholdCells == 10

SeqsUpTo(S, n) == UNION {DocsOfLen(S, k) : k \in 0..n}

\* characters of the cells given to _parse_numeric
NumericChars == {"(", ")", "1", ",", ".", "-", " ", "A"}

\* characters of the texts given to _reverse_hebrew
ReverseChars == {"A", "b", "1", "2", ",", "-"}

\* the digit strings n of the footnote markers "(n)"
FootnoteNumbers == {<<"1">>, <<"4">>, <<"1", "2">>}

Footnote(n) == <<"(">> \o n \o <<")">>

\* f"({n}) {v}" and f"{v} ({n})"
WithLead(n, v) == Footnote(n) \o <<" ">> \o v

WithTrail(n, v) == v \o <<" ">> \o Footnote(n)

\* ways of writing a number, each with the float it denotes: str(m), m with
\* a group of thousands after a comma, m and a half
NumberForms(m) ==
    {[str |-> IntToStr(m), val |-> <<m, 0>>],
     [str |-> IntToStr(m) \o <<".", "5">>, val |-> <<10 * m + 5, 1>>]}
    \cup (IF m >= 1
          THEN {[str |-> IntToStr(m) \o <<",", "0", "0", "0">>, val |-> <<1000 * m, 0>>]}
          ELSE {})

Numbers == UNION {NumberForms(m) : m \in 0..MaxNumber}

ParseNumericArgs ==
    {None}
    \cup SeqsUpTo(NumericChars, MaxTextLen)
    \cup {Footnote(n) : n \in FootnoteNumbers}
    \cup {WithLead(n, v.str) : n \in FootnoteNumbers, v \in Numbers}
    \cup {WithTrail(n, v.str) : n \in FootnoteNumbers, v \in Numbers}

ReverseHebrewArgs == SeqsUpTo(ReverseChars, MaxTextLen)

\* cells of a header or data row: null, empty, blank, text, a number, a
\* footnote marker, a number with a marker, a number with a comma, a hyphen
RowCells ==
    {None, <<>>, <<" ">>, <<"A">>, <<"5">>, Footnote(<<"1">>),
     WithLead(<<"1">>, <<"5">>), <<"1", ",", "2">>, <<"-">>}

IsHeaderRowArgs ==
    SeqsUpTo(RowCells, MaxRowCells) \cup DocsOfLen({<<"A">>, <<"5">>}, ThresholdCells)

ForwardFillArgs == SeqsUpTo({None, <<>>, <<" ">>, <<"A">>, <<"B">>}, MaxRowCells)

call_state == <<inputs, handle, result, raised, scan_locals, rights_locals, ops,
                plan_searches, prev>>

InitLeaf ==
    /\ \/ \E a \in ParseNumericArgs : applied = [f |-> "_parse_numeric", arg |-> a]
       \/ \E a \in ReverseHebrewArgs : applied = [f |-> "_reverse_hebrew", arg |-> a]
       \/ \E a \in IsHeaderRowArgs : applied = [f |-> "_is_header_row", arg |-> a]
       \/ \E a \in ForwardFillArgs : applied = [f |-> "_forward_fill_row", arg |-> a]
    /\ ret = None
    /\ pc = "apply"
    /\ fn = "none"
    /\ doc = <<>>
    /\ exists = FALSE
    /\ fault = NoFault
    /\ max_pages = PLOT_MAX_PAGES_TO_SCAN
    /\ plan_number = None
    /\ handle = "none"
    /\ result = None
    /\ raised = NoError
    /\ page_idx = 0
    /\ all_text_pages = <<>>
    /\ best_table_score = 0
    /\ section_pages = <<>>
    /\ section = 1
    /\ ops = {}
    /\ plan_searches = 0
    /\ outcomes = <<>>
    /\ raw_table = None
    /\ prev = NoPrev

ParseNumeric ==
    /\ pc = "apply"
    /\ applied.f = "_parse_numeric"
    /\ ret' = _parse_numeric(applied.arg)
    /\ pc' = "applied"
    /\ UNCHANGED <<call_state, applied>>

ReverseHebrew ==
    /\ pc = "apply"
    /\ applied.f = "_reverse_hebrew"
    /\ ret' = _reverse_hebrew(applied.arg)
    /\ pc' = "applied"
    /\ UNCHANGED <<call_state, applied>>

IsHeaderRow ==
    /\ pc = "apply"
    /\ applied.f = "_is_header_row"
    /\ ret' = _is_header_row(applied.arg)
    /\ pc' = "applied"
    /\ UNCHANGED <<call_state, applied>>

\* a list that shares its cells with the caller's row
AliasedList(row, filled) == filled

\* the caller's row after the call: "filled = list(row)" is a copy, so the
\* assignments to filled[i] do not reach it
CopiedList(row, filled) == row

\* ret holds the returned row and the caller's row as the call left it
ForwardFillRow ==
    /\ pc = "apply"
    /\ applied.f = "_forward_fill_row"
    /\ LET Filled(row, filled) ==
               ret' = [filled |-> filled, row |-> CopiedList(row, filled)]
       IN  Filled(applied.arg, _forward_fill_row(applied.arg))
    /\ pc' = "applied"
    /\ UNCHANGED <<call_state, applied>>

NextLeaf ==
    \/ ParseNumeric
    \/ ReverseHebrew
    \/ IsHeaderRow
    \/ ForwardFillRow

SpecLeaf == InitLeaf /\ [][NextLeaf]_vars

\* the application of the leaf utility f has returned
Applied(f) == pc = "applied" /\ applied.f = f

-----------------------------------------------------------------------------
(* The header functions applied on their own: _merge_header_rows on header   *)
(* blocks of two and three rows, _map_columns on lists of merged headers.    *)

MaxHeaderCols == 3
MaxThreeRowCols == 2
MaxHeaders == 3

\* cells of a top header row and of a sub-header row
TopCells == {None, <<>>, <<"p">>, <<"q">>}
SubCells == {None, <<" ">>, <<"x">>, <<"y">>}

RowsOver(cells, n) == UNION {DocsOfLen(cells, k) : k \in 1..n}

MergeHeaderArgs ==
    {<<top, sub>> : top \in RowsOver(TopCells, MaxHeaderCols),
                    sub \in RowsOver(SubCells, MaxHeaderCols)}
    \cup {<<top, sub, third>> : top \in RowsOver(TopCells, MaxThreeRowCols),
                                sub \in RowsOver(SubCells, MaxThreeRowCols),
                                third \in RowsOver(SubCells, MaxThreeRowCols)}

\* merged headers: empty, without keyword, and with the keywords of one or of
\* two fields
Words(w1, w2) == w1 \o <<" ">> \o w2

HeaderTexts ==
    {<<>>,
     <<"a", "b", "c">>,
     <<"y", "E", "w", "d">>,
     <<"S", "y", "m", "w", "S">>,
     Words(<<"y", "E", "w", "d">>, <<"S", "y", "m", "w", "S">>),
     Words(W_mEl, W_Eyqry),
     Words(W_qwmwt, W_mEl),
     Words(W_Eyqry, Words(W_mEl, W_Srwt))}

MapColumnsArgs == SeqsUpTo(HeaderTexts, MaxHeaders)

InitHeaders ==
    /\ \/ \E a \in MergeHeaderArgs :
              applied = [f |-> "_merge_header_rows", arg |-> a]
       \/ \E a \in MapColumnsArgs :
              applied = [f |-> "_map_columns", arg |-> a]
    /\ ret = None
    /\ pc = "apply"
    /\ fn = "none"
    /\ doc = <<>>
    /\ exists = FALSE
    /\ fault = NoFault
    /\ max_pages = PLOT_MAX_PAGES_TO_SCAN
    /\ plan_number = None
    /\ handle = "none"
    /\ result = None
    /\ raised = NoError
    /\ page_idx = 0
    /\ all_text_pages = <<>>
    /\ best_table_score = 0
    /\ section_pages = <<>>
    /\ section = 1
    /\ ops = {}
    /\ plan_searches = 0
    /\ outcomes = <<>>
    /\ raw_table = None
    /\ prev = NoPrev

\* ret holds the returned headers and, beside them, the padded_rows built on
\* the way
MergeHeaderRows ==
    /\ pc = "apply"
    /\ applied.f = "_merge_header_rows"
    /\ ret' = [merged_headers |-> _merge_header_rows(applied.arg),
               padded_rows |-> PaddedRows(applied.arg)]
    /\ pc' = "applied"
    /\ UNCHANGED <<call_state, applied>>

MapColumns ==
    /\ pc = "apply"
    /\ applied.f = "_map_columns"
    /\ ret' = _map_columns(applied.arg)
    /\ pc' = "applied"
    /\ UNCHANGED <<call_state, applied>>

NextHeaders ==
    \/ MergeHeaderRows
    \/ MapColumns

SpecHeaders == InitHeaders /\ [][NextHeaders]_vars

-----------------------------------------------------------------------------
(* _extract_plan_number applied on its own to page texts put together from   *)
(* keywords, plan numbers and dates.                                         *)

MaxPieces == 4

\* blanks that push a number to the edge of the 80-character window
PadLen == 72

Pad == [i \in 1..PadLen |-> " "]

TextPieces == {
    <<"t", "k", "n", "y", "t", ":", " ">>,
    <<"t", "k", "n", "y", "t", " ">>,
    <<"1", "/", "2", "/", "2", "0", "2", "4", " ">>,
    <<"2", "0", "2", "4", "/", "1", "/", "2", " ">>,
    <<"1", "2", "-", "3", "4", "5", "6", " ">>,
    <<"t", "y", "n", "k", "t", " ">>,
    <<":", "h", "n", "y", "h", " ">>,
    <<"1", ".", "2", ".", "2", "0", "2", "4", " ">>,
    <<"1", "/", "2", "/", "2", "0", "2", "4">>,
    Pad }

PlanTexts == {Join(pieces, <<>>) : pieces \in SeqsUpTo(TextPieces, MaxPieces)}

InitPlan ==
    /\ applied \in {[f |-> "_extract_plan_number", arg |-> a] : a \in PlanTexts}
    /\ ret = None
    /\ pc = "apply"
    /\ fn = "none"
    /\ doc = <<>>
    /\ exists = FALSE
    /\ fault = NoFault
    /\ max_pages = PLOT_MAX_PAGES_TO_SCAN
    /\ plan_number = None
    /\ handle = "none"
    /\ result = None
    /\ raised = NoError
    /\ page_idx = 0
    /\ all_text_pages = <<>>
    /\ best_table_score = 0
    /\ section_pages = <<>>
    /\ section = 1
    /\ ops = {}
    /\ plan_searches = 0
    /\ outcomes = <<>>
    /\ raw_table = None
    /\ prev = NoPrev

ExtractPlanNumber ==
    /\ pc = "apply"
    /\ applied.f = "_extract_plan_number"
    /\ ret' = _extract_plan_number(applied.arg)
    /\ pc' = "applied"
    /\ UNCHANGED <<call_state, applied>>

NextPlan == ExtractPlanNumber

SpecPlan == InitPlan /\ [][NextPlan]_vars

-----------------------------------------------------------------------------
(* Properties of the returned result *)

IsExtract == fn = "extract"

IsRights == fn = "extract_building_rights"

\* the library raised during the call
LibraryFailure == raised # NoError

\* result["errors"] holds an entry formatted from the exception raised
DescribesFailure ==
    \E i \in 1..Len(result.errors) : result.errors[i].arg = raised

\* the quick check read its pages: the file opened and their text was extracted
QuickCheckRead ==
    /\ exists
    /\ fault.op # "open"
    /\ ~(fault.op = "text" /\ fault.page < Min(2, PagesToScan))

\* some keyword of the list occurs in the text of the first two scanned pages
FirstPagesContain(keywords) ==
    \E k \in 1..Len(keywords) :
        Contains(FirstPagesText(Pdf, 0, Min(2, PagesToScan)), keywords[k])

\* the call has returned, or stands at a position where the guard of the next
\* step of its entry point holds
CanStep ==
    \/ Returned
    \/ IsExtract /\ pc \in {"call", "open", "quick", "fallback", "except", "finalize"}
    \/ IsExtract /\ pc = "scan" /\ page_idx < PagesToScan
    \/ IsRights /\ pc \in {"call", "open", "find", "after", "except"}
    \/ IsRights /\ pc = "section" /\ section <= Len(section_pages)

NoTableExtraction == \A o \in ops : o[1] # "tables"

(* C1: every result returned by extract has success exactly when plots is    *)
(* non-empty or the plan number (taba) is set, on every return path.         *)
C1_SuccessInvariant ==
    (Returned /\ IsExtract) =>
        (result.success <=> (result.plots # <<>> \/ result.taba # None))

\* a normal completion whose only plot was synthesized by the text fallback
C1_Witness ==
    /\ Returned /\ IsExtract
    /\ ~LibraryFailure
    /\ best_table_score = 0
    /\ result.plots # <<>>
    /\ result.taba = None
    /\ result.success

(* C2: no exception escapes either entry point: when the open, a text        *)
(* extraction or a table extraction raises at any page, the call still       *)
(* returns a result whose errors hold an entry describing the failure.       *)
C2_NoEscape ==
    /\ pc # "escaped"
    /\ CanStep
    /\ (Returned /\ LibraryFailure) => DescribesFailure

\* the table extraction of a continuation page raised, after the Section-5
\* page had been located
C2_Witness ==
    /\ Returned /\ IsRights
    /\ raised = TablesError
    /\ fault.page = 1
    /\ result.source_page = PyInt(1)
    /\ DescribesFailure

(* C3 as stated: whenever the library raises during a call, the returned     *)
(* result has success = false and a descriptive error string.                *)
C3_FailureMeansNoSuccess ==
    (Returned /\ LibraryFailure) => (~result.success /\ DescribesFailure)

(* C3: whenever the library raises during a call, the returned result holds  *)
(* a descriptive error string; extract_building_rights returns success =     *)
(* false with no rows, and extract returns success = true exactly when plots *)
(* or a plan number were recorded from the pages before the failing one.     *)
C3_FailureKeepsPartial ==
    (Returned /\ LibraryFailure) =>
        /\ DescribesFailure
        /\ IsRights => (~result.success /\ result.rows = <<>>)
        /\ IsExtract =>
               (result.success <=> (result.plots # <<>> \/ result.taba # None))

\* a page operation raised after an earlier page had given plots
C3_Witness ==
    /\ Returned /\ IsExtract
    /\ LibraryFailure
    /\ result.plots # <<>>
    /\ result.success

(* C4: every returned result with success = false has a non-empty errors     *)
(* list, also when the scan met no exception and found nothing.              *)
C4_FailedHasError ==
    (Returned /\ ~result.success) => result.errors # <<>>

(* C5: the handle opened by a call is closed before the call returns, on     *)
(* every exit path; no handle is open in a state where the call returned.    *)
C5_HandleClosed ==
    Returned =>
        /\ handle # "open"
        /\ (exists /\ fault.op # "open") => handle = "closed"

\* a table extraction raised inside the with block
C5_Witness ==
    /\ Returned
    /\ raised = TablesError
    /\ handle = "closed"

(* C6: when the text of the first two scanned pages holds a non-land         *)
(* keyword, extract returns no plots, no plan number, no purpose, success =  *)
(* false and one error naming the matched keyword, and performs no table     *)
(* extraction and no plan-number search on any page.                         *)
C6_NonLandShortCircuit ==
    (Returned /\ IsExtract /\ QuickCheckRead /\ FirstPagesContain(NON_LAND_KEYWORDS)) =>
        /\ result.plots = <<>>
        /\ result.taba = None
        /\ result.purpose = None
        /\ ~result.success
        /\ Len(result.errors) = 1
        /\ result.errors[1].msg = "non_land_tender: matched "
        /\ \E k \in 1..Len(NON_LAND_KEYWORDS) :
               /\ result.errors[1].arg = NON_LAND_KEYWORDS[k]
               /\ Contains(FirstPagesText(Pdf, 0, Min(2, PagesToScan)),
                           NON_LAND_KEYWORDS[k])
        /\ NoTableExtraction
        /\ plan_searches = 0

\* the keyword is on the second page and the first page holds a plot table
\* whose extraction would have raised
C6_Witness ==
    /\ Returned /\ IsExtract
    /\ doc = <<"table", "nonland">>
    /\ max_pages = PLOT_MAX_PAGES_TO_SCAN
    /\ fault = [op |-> "tables", page |-> 0]
    /\ Len(result.errors) = 1
    /\ result.errors[1].msg = "non_land_tender: matched "

(* C7: when the text of the first two pages holds an announcement keyword,   *)
(* extract records an explanatory error and returns empty results without    *)
(* attempting table parsing (stated for calls in which the library does not  *)
(* fail).                                                                    *)
C7_AnnouncementShortCircuit ==
    (Returned /\ IsExtract /\ QuickCheckRead /\ ~LibraryFailure
     /\ FirstPagesContain(ANNOUNCEMENT_KEYWORDS)) =>
        /\ result.errors # <<>>
        /\ result.plots = <<>>
        /\ ~result.success
        /\ NoTableExtraction

FailureModes == {"no_section", "no_table", "no_columns", "no_rows"}

(* C8: the errors recorded for no Section-5 page, for no table of the        *)
(* required size, for no mapped column and for zero retained rows are        *)
(* pairwise different, each with success = false: two calls of a batch that  *)
(* end in different ones of these modes record different errors.             *)
C8_DistinctErrors ==
    (/\ Returned /\ IsRights
     /\ Mode \in FailureModes
     /\ prev.mode \in FailureModes
     /\ prev.mode # Mode) =>
        /\ result.errors # prev.errors
        /\ ~result.success
        /\ ~prev.success

(* C9: every entry of plots has at least one non-null field, and every entry *)
(* of rows has at least one non-null value among its mapped fields, _raw not *)
(* counting.                                                                 *)
C9_Retention ==
    Returned =>
        IF IsExtract
        THEN \A i \in 1..Len(result.plots) :
                 \E f \in DOMAIN result.plots[i] : result.plots[i][f] # None
        ELSE \A i \in 1..Len(result.rows) :
                 \E f \in DOMAIN result.rows[i] \ {"_raw"} : result.rows[i][f] # None

\* rows were returned, one of them with a null field beside a non-null one
C9_Witness ==
    /\ Returned /\ IsRights
    /\ \E i \in 1..Len(result.rows) :
           \E f \in DOMAIN result.rows[i] \ {"_raw"} : result.rows[i][f] = None

\* a table was located from page p and the rows of the result are its rows
RowsLocatedOn(located) ==
    /\ located.raised = NoError
    /\ located.table # <<>>
    /\ result.rows = _parse_table(located.table).rows

(* C10: whenever source_page is non-null it is the 1-based index of the      *)
(* Section-5 page on which the table that produced the returned rows was     *)
(* located, and status is the status keyword found on that page (stated for  *)
(* calls in which the library does not fail).                                *)
C10_SourcePageOfRows ==
    (Returned /\ IsRights /\ ~LibraryFailure /\ result.source_page # None) =>
        \E p \in 0..(Len(doc) - 1) :
            /\ result.source_page = PyInt(p + 1)
            /\ HasSection(TextOrEmpty(Pdf, p))
            /\ result.status = StatusFrom(TextOrEmpty(Pdf, p), 1)
            /\ RowsLocatedOn(_extract_table_from_pages(Pdf, p))

(* C11: two successive calls on the same document, with the same extractor   *)
(* instance and the same plan_number, return identical results; nothing the  *)
(* first call wrote is read by the second.                                   *)
C11_Idempotent ==
    (Returned /\ SecondCall) => result = prev.result

\* the second call found its plots although the first had left its best score
\* behind
C11_Witness ==
    /\ Returned /\ SecondCall
    /\ IsExtract
    /\ best_table_score > 0
    /\ result.plots # <<>>
    /\ result = prev.result

(* C12: for every non-negative number string v, with or without a comma     *)
(* before its thousands, and every digit string n, _parse_numeric gives the  *)
(* value of v for "(n) v" and for "v (n)"; it gives null for "(n)" alone and *)
(* for null, empty and whitespace-only input; and it raises on no input.     *)
C12_ParseNumericFootnotes ==
    Applied("_parse_numeric") =>
        /\ ret # ValueError
        /\ \A n \in FootnoteNumbers :
               /\ applied.arg = Footnote(n) => ret = None
               /\ \A v \in Numbers :
                      applied.arg \in {WithLead(n, v.str), WithTrail(n, v.str)}
                          => ret = v.val
        /\ (applied.arg = None \/ Strip(applied.arg) = <<>>) => ret = None

\* "2,000 (12)" gave 2000.0
C12_Witness ==
    /\ Applied("_parse_numeric")
    /\ applied.arg = WithTrail(<<"1", "2">>, <<"2", ",", "0", "0", "0">>)
    /\ ret = <<2000, 0>>

(* C13: on a string of Hebrew letters only, _reverse_hebrew gives the        *)
(* character reversal of the string, and applied twice gives the string back. *)
C13_ReverseInvolution ==
    (Applied("_reverse_hebrew")
     /\ \A k \in 1..Len(applied.arg) : applied.arg[k] \in HebrewLetters) =>
        /\ ret = Reverse(applied.arg)
        /\ _reverse_hebrew(ret) = applied.arg

\* a string of letters that is not its own reversal
C13_Witness ==
    /\ Applied("_reverse_hebrew")
    /\ applied.arg = <<"A", "b", "b">>
    /\ ret = <<"b", "b", "A">>

\* t starts and ends with a digit and holds only digits and , . / -
NumericRun(t) ==
    /\ t # <<>>
    /\ t[1] \in Digits
    /\ t[Len(t)] \in Digits
    /\ \A k \in 1..Len(t) : t[k] \in Digits \cup {",", ".", "/", "-"}

\* s[i..j] is a numeric run that no longer numeric run of s contains
MaximalRun(s, i, j) ==
    /\ NumericRun(SubSeq(s, i, j))
    /\ \A a \in 1..i : \A b \in j..Len(s) :
           NumericRun(SubSeq(s, a, b)) => (a = i /\ b = j)

(* C14: in the output of _reverse_hebrew every numeric run of the input      *)
(* appears unchanged; the output is the input read from its end, except that *)
(* each numeric run keeps its own order (segments in reverse order, the      *)
(* non-numeric ones character-reversed); the empty string gives the empty    *)
(* string and a single numeric run gives itself.                             *)
C14_ReverseKeepsNumbers ==
    Applied("_reverse_hebrew") =>
        /\ Len(ret) = Len(applied.arg)
        /\ \A i \in 1..Len(applied.arg) : \A j \in i..Len(applied.arg) :
               /\ NumericRun(SubSeq(applied.arg, i, j))
                      => Contains(ret, SubSeq(applied.arg, i, j))
               /\ MaximalRun(applied.arg, i, j)
                      => SubSeq(ret, Len(ret) + 1 - j, Len(ret) + 1 - i)
                             = SubSeq(applied.arg, i, j)
        /\ \A q \in 1..Len(applied.arg) :
               (\A i \in 1..q : \A j \in q..Len(applied.arg) :
                    ~NumericRun(SubSeq(applied.arg, i, j)))
                   => ret[Len(ret) + 1 - q] = applied.arg[q]
        /\ applied.arg = <<>> => ret = <<>>
        /\ NumericRun(applied.arg) => ret = applied.arg

\* a letter before the run "1,2": the run comes first in the output, unchanged
C14_Witness ==
    /\ Applied("_reverse_hebrew")
    /\ applied.arg = <<"A", "1", ",", "2">>
    /\ ret = <<"1", ",", "2", "A">>

\* the nearest non-empty cell to the left of cell i, 0 when there is none
NearestLeft(row, i) ==
    IF \E j \in 1..(i - 1) : ~IsBlank(row[j])
    THEN CHOOSE j \in 1..(i - 1) :
             /\ ~IsBlank(row[j])
             /\ \A k \in (j + 1)..(i - 1) : IsBlank(row[k])
    ELSE 0

(* C15: _forward_fill_row returns a row of the same length in which every    *)
(* non-empty cell is unchanged, every empty cell with a non-empty cell to    *)
(* its left holds the value of the nearest such cell, and every empty cell   *)
(* with none stays as it was; the input row is not modified.                 *)
C15_ForwardFill ==
    Applied("_forward_fill_row") =>
        /\ Len(ret.filled) = Len(applied.arg)
        /\ ret.row = applied.arg
        /\ \A i \in 1..Len(applied.arg) :
               ret.filled[i] =
                   IF ~IsBlank(applied.arg[i]) \/ NearestLeft(applied.arg, i) = 0
                   THEN applied.arg[i]
                   ELSE applied.arg[NearestLeft(applied.arg, i)]

\* a null before the first value stays, a null and a blank after it are filled
C15_Witness ==
    /\ Applied("_forward_fill_row")
    /\ applied.arg = <<None, <<"A">>, None, <<" ">>>>
    /\ ret.filled = <<None, <<"A">>, <<"A">>, <<"A">>>>

\* the non-empty cells of a row, and those of them that are numeric once their
\* footnote markers are stripped: only digits, commas, periods, hyphens, spaces
NonEmptyCells(row) == {i \in 1..Len(row) : row[i] # None /\ Strip(row[i]) # <<>>}

NumericCells(row) ==
    {i \in NonEmptyCells(row) : LooksNumeric(StripFootnotes(Strip(row[i])))}

(* C16: _is_header_row takes a row for a header exactly when the row has no  *)
(* non-empty cell or fewer than 30% of its non-empty cells are numeric after *)
(* the footnote markers are stripped, a cell that is only a marker counting  *)
(* as non-numeric; a row with at least 30% numeric cells, and so one with at *)
(* least 70%, is data.                                                       *)
C16_HeaderThreshold ==
    Applied("_is_header_row") =>
        /\ ret <=> (\/ NonEmptyCells(applied.arg) = {}
                    \/ 10 * Cardinality(NumericCells(applied.arg))
                           < 3 * Cardinality(NonEmptyCells(applied.arg)))
        /\ \A i \in NonEmptyCells(applied.arg) :
               StripFootnotes(Strip(applied.arg[i])) = <<>>
                   => i \notin NumericCells(applied.arg)
        /\ (/\ NonEmptyCells(applied.arg) # {}
            /\ 10 * Cardinality(NumericCells(applied.arg))
                   >= 7 * Cardinality(NonEmptyCells(applied.arg))) => ~ret

\* ten non-empty cells, exactly three of them numeric: data
C16_Witness ==
    /\ Applied("_is_header_row")
    /\ Cardinality(NonEmptyCells(applied.arg)) = ThresholdCells
    /\ 10 * Cardinality(NumericCells(applied.arg)) = 3 * ThresholdCells
    /\ ~ret

\* the tables of the scanned pages, as (page index, table index) from 1,
\* and their order of encounter
ScannedTables ==
    UNION {{<<p, t>> : t \in 1..Len(Pdf.pages[p].tables)} : p \in 1..PagesToScan}

Before(a, b) == a[1] < b[1] \/ (a[1] = b[1] /\ a[2] < b[2])

ParsedAt(w) == _parse_plot_table(Pdf.pages[w[1]].tables[w[2]])

\* the header matches no strong field, but mitham and at least one more field
WeakHeader(col_indices) ==
    /\ STRONG_FIELDS \cap DOMAIN col_indices = {}
    /\ "mitham" \in DOMAIN col_indices
    /\ Cardinality(DOMAIN col_indices) >= 2

WeakTable(table) ==
    /\ Len(table) >= 2
    /\ WeakHeader(_find_column_indices(table[1]))
    /\ \E r \in 2..Len(table) : ~IsEmptyRow(table[r])

\* extract went through the whole page scan and the fallbacks
ScanCompleted ==
    /\ Returned
    /\ IsExtract
    /\ exists
    /\ ~LibraryFailure
    /\ result.errors = <<>>

\* the plots are the rows parsed from one table; the text fallback may have
\* filled in the gush and helka the table lacks
FromTable(plots, parsed) ==
    /\ Len(plots) = Len(parsed)
    /\ \A i \in 1..Len(parsed) :
           \A f \in DOMAIN parsed[i] \ {"gush", "helka"} :
               f \in DOMAIN plots[i] /\ plots[i][f] = parsed[i][f]

(* C17: when the only table of the scanned pages that the plot parser takes  *)
(* is a weak one (no strong field in its header, but mitham and at least one *)
(* more known field) with a non-empty data row, the rows parsed from it are  *)
(* what result.plots holds at the end of extract.                            *)
C17_WeakTableReturned ==
    ScanCompleted =>
        \A w \in ScannedTables :
            (/\ WeakTable(Pdf.pages[w[1]].tables[w[2]])
             /\ ParsedAt(w).plots # <<>>
             /\ \A o \in ScannedTables \ {w} : ParsedAt(o).plots = <<>>)
                => /\ result.plots # <<>>
                   /\ FromTable(result.plots, ParsedAt(w).plots)

\* the tables of the scanned pages from which the plot parser returns rows
AcceptedTables == {w \in ScannedTables : ParsedAt(w).plots # <<>>}

\* w has the highest score of the accepted tables and is the first with it
FirstOfHighest(w) ==
    \A o \in AcceptedTables \ {w} :
        \/ ParsedAt(o).score < ParsedAt(w).score
        \/ (ParsedAt(o).score = ParsedAt(w).score /\ Before(w, o))

(* C18: at the end of extract the table-derived plots are the rows of one    *)
(* table: of the accepted tables on the scanned pages, the one with the      *)
(* highest strong-field score, and among several with that score the one     *)
(* met first in page order and table order; rows of two tables never mix.    *)
C18_OneBestTable ==
    (ScanCompleted /\ AcceptedTables # {}) =>
        \E w \in AcceptedTables :
            /\ FirstOfHighest(w)
            /\ FromTable(result.plots, ParsedAt(w).plots)

\* the table picked on the page with 0-based index i
SelectedOn(i) == _select_rights_table(Pdf.pages[i + 1].tables)

\* the last step of the Section-5 loop extracted a table, from this page on
TableExtracted == IsRights /\ ~LibraryFailure /\ raw_table # None

StartPage == result.source_page[2] - 1

\* page i can continue a table of num_cols columns
Continues(i, num_cols) ==
    /\ \A k \in 1..Len(SECTION_KEYWORDS) :
           ~Contains(TextOrEmpty(Pdf, i), SECTION_KEYWORDS[k])
    /\ SelectedOn(i) # <<>>
    /\ \A r \in 1..Len(SelectedOn(i)) : Len(SelectedOn(i)[r]) <= num_cols
    /\ \E r \in 1..Len(SelectedOn(i)) : Len(SelectedOn(i)[r]) = num_cols

\* the pages treated as continuation of the table of page start: the
\* contiguous run of continuing pages right after it
ContinuationPages(start) ==
    {i \in (start + 1)..(Min(Len(doc), start + 15) - 1) :
        \A j \in (start + 1)..i : Continues(j, MaxRowLen(SelectedOn(start)))}

\* the rows of a table after its leading block of header-like rows
AfterHeaderBlock(table) ==
    LET Block(n) == /\ \A r \in 1..n : _is_header_row(table[r])
                    /\ n < Len(table) => ~_is_header_row(table[n + 1])
        From(n) == SubSeq(table, n + 1, Len(table))
    IN  From(CHOOSE n \in 0..Len(table) : Block(n))

RECURSIVE Flatten(_)
Flatten(seqs) ==
    IF seqs = <<>> THEN <<>> ELSE Head(seqs) \o Flatten(Tail(seqs))

(* C19: the combined rights table is the table of the start page followed,   *)
(* for each page treated as its continuation, by the rows of that page's     *)
(* table after its leading header-like rows; none of the leading header-like *)
(* rows is appended, and a continuation table of header-like rows only adds  *)
(* nothing.                                                                  *)
C19_ContinuationHeadersSkipped ==
    TableExtracted =>
        raw_table = SelectedOn(StartPage) \o
            Flatten([k \in 1..Cardinality(ContinuationPages(StartPage)) |->
                        AfterHeaderBlock(SelectedOn(StartPage + k))])

\* rows is made of one final segment of each of the tables, in order
RECURSIVE SuffixesOf(_, _)
SuffixesOf(rows, tables) ==
    IF tables = <<>> THEN rows = <<>>
    ELSE \E n \in 0..Min(Len(rows), Len(Head(tables))) :
             /\ SubSeq(rows, 1, n)
                    = SubSeq(Head(tables), Len(Head(tables)) - n + 1, Len(Head(tables)))
             /\ SuffixesOf(SubSeq(rows, n + 1, Len(rows)), Tail(tables))

(* C20: the rows of the combined rights table after those of the start page  *)
(* come only from the contiguous run of pages right after the start page     *)
(* that have no Section-5 keyword and a selected table with the start        *)
(* table's column count; the first page with a keyword, without a suitable   *)
(* table or with another column count ends the run, and neither it nor any   *)
(* later page adds a row.                                                    *)
C20_ContiguousContinuation ==
    TableExtracted =>
        /\ Len(raw_table) >= Len(SelectedOn(StartPage))
        /\ SubSeq(raw_table, 1, Len(SelectedOn(StartPage))) = SelectedOn(StartPage)
        /\ SuffixesOf(SubSeq(raw_table, Len(SelectedOn(StartPage)) + 1, Len(raw_table)),
                      [k \in 1..Cardinality(ContinuationPages(StartPage)) |->
                          SelectedOn(StartPage + k)])

\* a four-page plan: the second page continues the table and adds rows, the
\* third ends the run, and the fourth, which could continue the table, adds
\* nothing
C20_Witness ==
    /\ TableExtracted
    /\ Returned
    /\ Len(doc) = 4
    /\ StartPage = 0
    /\ ContinuationPages(0) = {1}
    /\ Continues(3, MaxRowLen(SelectedOn(0)))
    /\ Len(raw_table) > Len(SelectedOn(0))
    /\ Len(raw_table) <= Len(SelectedOn(0)) + Len(SelectedOn(1))

\* the page cap of the entry point called
PageCap == IF IsExtract THEN max_pages ELSE MAX_PAGES_TO_SCAN

(* C21: no text or table extraction is performed on a page whose index is at *)
(* or above the cap of the extractor called: max_pages for the plot          *)
(* extractor, 30 for the building-rights extractor, the pages read while     *)
(* following a table continuation included.  Stated for calls in which the  *)
(* library does not fail.                                                    *)
C21_PageCap == ~LibraryFailure => \A o \in ops : o[2] < PageCap

\* the sub-header row r of the argument, padded to the width of the block
SubHeaderRow(r) == PadNone(applied.arg[r], MaxRowLen(applied.arg))

\* column c of sub-header row r was empty and holds another value afterwards
Received(r, c) ==
    /\ IsBlank(SubHeaderRow(r)[c])
    /\ ret.padded_rows[r][c] # SubHeaderRow(r)[c]

\* columns c0..c lie under one parent of the filled top row
SameParent(c0, c) ==
    \A k \in c0..c :
        /\ ret.padded_rows[1][k] # None
        /\ ret.padded_rows[1][k] = ret.padded_rows[1][c0]

(* C22: in _merge_header_rows a non-empty cell of a second or third header   *)
(* row is kept, and an empty cell at column c receives a value only from the *)
(* nearest non-empty cell at a column c0 < c of the same row, and only when  *)
(* the filled top row is non-null and the same from c0 to c; no value enters *)
(* a column under another parent or under no parent.                         *)
C22_FillWithinParentSpan ==
    Applied("_merge_header_rows") =>
        \A r \in 2..Len(applied.arg) :
            \A c \in 1..MaxRowLen(applied.arg) :
                /\ ~IsBlank(SubHeaderRow(r)[c])
                       => ret.padded_rows[r][c] = SubHeaderRow(r)[c]
                /\ Received(r, c) =>
                       \E c0 \in 1..(c - 1) :
                           /\ ~IsBlank(SubHeaderRow(r)[c0])
                           /\ \A k \in (c0 + 1)..(c - 1) : IsBlank(SubHeaderRow(r)[k])
                           /\ ret.padded_rows[r][c] = SubHeaderRow(r)[c0]
                           /\ SameParent(c0, c)

\* a sub-header value spreads under its parent and stops where the parent
\* changes
C22_Witness ==
    /\ Applied("_merge_header_rows")
    /\ \E c \in 2..(MaxRowLen(applied.arg) - 1) :
           /\ Received(2, c)
           /\ ~IsBlank(ret.padded_rows[1][c])
           /\ IsBlank(SubHeaderRow(2)[c + 1])
           /\ ~Received(2, c + 1)
           /\ ret.padded_rows[1][c + 1] \notin {None, ret.padded_rows[1][c]}

\* the fields claimed by the columns before column c (0-based)
ClaimedBefore(c) == {ret[j] : j \in {i \in DOMAIN ret : i < c}}

\* the positions in COLUMN_KEYWORDS of the fields column c could still take
Claimable(c) ==
    {k \in 1..Len(COLUMN_KEYWORDS) :
        /\ COLUMN_KEYWORDS[k].field \notin ClaimedBefore(c)
        /\ \E p \in 1..Len(COLUMN_KEYWORDS[k].patterns) :
               ReSearch(COLUMN_KEYWORDS[k].patterns[p], applied.arg[c + 1])}

(* C23: _map_columns gives no field to two columns and one field at most to  *)
(* a column; from left to right, a column with a non-empty header takes the  *)
(* first field of COLUMN_KEYWORDS that no earlier column has claimed and     *)
(* that has a pattern matching the header, and it stays unmapped exactly     *)
(* when there is no such field.                                              *)
C23_InjectiveByPriority ==
    Applied("_map_columns") =>
        /\ DOMAIN ret \subseteq 0..(Len(applied.arg) - 1)
        /\ \A c1, c2 \in DOMAIN ret : ret[c1] = ret[c2] => c1 = c2
        /\ \A c \in 0..(Len(applied.arg) - 1) :
               IF applied.arg[c + 1] # <<>> /\ Claimable(c) # {}
               THEN /\ c \in DOMAIN ret
                    /\ \E k \in Claimable(c) :
                           /\ \A j \in Claimable(c) : k <= j
                           /\ ret[c] = COLUMN_KEYWORDS[k].field
               ELSE c \notin DOMAIN ret

\* three columns whose headers all name the designation: the first takes it,
\* the second takes the other field its header names, the third stays unmapped
C23_Witness ==
    /\ Applied("_map_columns")
    /\ Len(applied.arg) = 3
    /\ ret = (0 :> "designation") @@ (1 :> "use")
    /\ \A c \in 1..3 : ReSearch(COLUMN_KEYWORDS[1].patterns[1], applied.arg[c])

\* the pages of the document, within the search cap, whose text has a
\* Section-5 keyword (0-based)
Section5Pages ==
    {i \in 0..(Min(Len(doc), MAX_PAGES_TO_SCAN) - 1) :
        \E k \in 1..Len(SECTION_KEYWORDS) :
            Contains(TextOrEmpty(Pdf, i), SECTION_KEYWORDS[k])}

\* the rows parsed from the table that starts on page i
RowsFrom(i) == _parse_table(_extract_table_from_pages(Pdf, i).table).rows

\* the Section-5 pages whose table gives at least one row
YieldingPages == {i \in Section5Pages : RowsFrom(i) # <<>>}

\* the Section-5 pages the loop has tried: tables were extracted from them
TriedPages == {i \in Section5Pages : TablesOp(i) \in ops}

(* C24: extract_building_rights tries the Section-5 pages in increasing page *)
(* order and returns the rows of the first whose table gives a parsed row; a *)
(* Section-5 page without suitable table, without mapped column or without   *)
(* retained row does not end the search, and no Section-5 page after the     *)
(* first successful one is tried.  Stated for calls in which the library     *)
(* does not fail.                                                            *)
C24_RetryOrder ==
    (IsRights /\ Returned /\ exists /\ ~LibraryFailure) =>
        /\ \A k \in 1..Len(section_pages) :
               /\ section_pages[k].page_idx \in Section5Pages
               /\ \A j \in 1..(k - 1) :
                      section_pages[j].page_idx < section_pages[k].page_idx
        /\ Section5Pages = {section_pages[k].page_idx : k \in 1..Len(section_pages)}
        /\ IF YieldingPages = {}
           THEN /\ TriedPages = Section5Pages
                /\ result.rows = <<>>
                /\ ~result.success
           ELSE \E first \in YieldingPages :
                    /\ \A i \in YieldingPages : first <= i
                    /\ TriedPages = {i \in Section5Pages : i <= first}
                    /\ result.rows = RowsFrom(first)
                    /\ result.source_page = PyInt(first + 1)
                    /\ result.success

\* three Section-5 pages: the first gives no row, the second gives the rows
\* returned, the third is not tried
C24_Witness ==
    /\ IsRights
    /\ Returned
    /\ ~LibraryFailure
    /\ Section5Pages = {0, 1, 2}
    /\ outcomes \in {<<"no_table", "rows">>, <<"no_columns", "rows">>,
                     <<"no_rows", "rows">>}
    /\ YieldingPages = {1, 2}
    /\ result.source_page = PyInt(2)
    /\ result.rows # <<>>

\* the step from the end of the page scan to the end of the with block
FallbackStep == IsExtract /\ pc = "fallback" /\ pc' = "finalize"

\* what the inline gush pattern gives on the concatenated page texts
TextGush == _extract_gush_helka_from_text(Join(all_text_pages, <<"\n">>))

(* C25: when the concatenated page text has an inline gush pattern, the step *)
(* after the page scan sets the gush of every plot of the winning table      *)
(* whose gush is null or "-" from the text match, and when no table gave a   *)
(* plot it leaves exactly one plot, made from the match.                     *)
C25_GushFallback ==
    [][(FallbackStep /\ TextGush # EmptyDict) =>
           /\ result.plots # <<>> =>
                  /\ Len(result'.plots) = Len(result.plots)
                  /\ \A i \in 1..Len(result.plots) :
                         Missing(result.plots[i], "gush")
                             => DictGet(result'.plots[i], "gush") = TextGush["gush"]
           /\ result.plots = <<>> => result'.plots = <<TextGush>>]_vars

\* the scanned pages whose own text gives a plan number (0-based)
PlanPages ==
    {i \in 0..(PagesToScan - 1) : Truthy(_extract_plan_number(TextOrEmpty(Pdf, i)))}

\* the texts of the scanned pages joined as the combined fallback joins them
CombinedText == Join([i \in 1..PagesToScan |-> TextOrEmpty(Pdf, i - 1)], <<"\n">>)

(* C26: the plan number extract returns is the one found in the text of the  *)
(* lowest scanned page whose own text gives one; no later page is searched   *)
(* once it is set, so it is never replaced; the concatenation of the page    *)
(* texts is searched only when no single page gave a plan number.            *)
C26_PlanSearchOrder ==
    ScanCompleted =>
        IF PlanPages # {}
        THEN \E first \in PlanPages :
                 /\ \A i \in PlanPages : first <= i
                 /\ result.taba = _extract_plan_number(TextOrEmpty(Pdf, first))
                 /\ plan_searches = first + 1
        ELSE /\ plan_searches = PagesToScan + 1
             /\ result.taba = IF Truthy(_extract_plan_number(CombinedText))
                              THEN _extract_plan_number(CombinedText)
                              ELSE None

\* two scanned pages with different plan numbers: the first page's is returned
C26_Witness ==
    /\ ScanCompleted
    /\ PlanPages = {0, 1}
    /\ _extract_plan_number(TextOrEmpty(Pdf, 0))
           # _extract_plan_number(TextOrEmpty(Pdf, 1))
    /\ result.taba = _extract_plan_number(TextOrEmpty(Pdf, 0))

IsDigitString(s) == \A i \in 1..Len(s) : s[i] \in Digits

\* a four-digit year of the 1900s or the 2000s
IsYear(s) ==
    /\ Len(s) = 4
    /\ IsDigitString(s)
    /\ SubSeq(s, 1, 2) \in {<<"1", "9">>, <<"2", "0">>}

\* D/M/YYYY, D.M.YYYY or YYYY/M/D, day and month of one or two digits
DateFormat(s) ==
    \E a \in 1..2, b \in 1..2 :
        /\ Len(s) = a + b + 6
        /\ \/ \E sep \in {"/", "."} :
                  /\ IsDigitString(SubSeq(s, 1, a))
                  /\ s[a + 1] = sep
                  /\ IsDigitString(SubSeq(s, a + 2, a + b + 1))
                  /\ s[a + b + 2] = sep
                  /\ IsYear(SubSeq(s, a + b + 3, a + b + 6))
           \/ /\ IsYear(SubSeq(s, 1, 4))
              /\ s[5] = "/"
              /\ IsDigitString(SubSeq(s, 6, a + 5))
              /\ s[a + 6] = "/"
              /\ IsDigitString(SubSeq(s, a + 7, a + b + 6))

\* the candidates of a text that are not dates, by their place in the search
PlanNumbers(cands) ==
    {k \in 1..Len(cands) : cands[k] # None /\ ~DateFormat(cands[k])}

(* C27: the plan number _extract_plan_number returns is never a string in    *)
(* date format (D/M/YYYY, D.M.YYYY, YYYY/M/D): a candidate of a keyword      *)
(* pattern or of the proximity window that is a date is passed over and the  *)
(* search goes on with the remaining patterns, so the first candidate that   *)
(* is not a date is returned, and None when there is none.                   *)
C27_NeverADate ==
    Applied("_extract_plan_number") =>
        /\ ret # None => ~DateFormat(ret)
        /\ LET FirstOf(cands, good) ==
                   IF good = {} THEN ret = None
                   ELSE \E k \in good : /\ \A j \in good : k <= j
                                        /\ ret = cands[k]
               Checked(cands) == FirstOf(cands, PlanNumbers(cands))
           IN  Checked(PlanCandidates(applied.arg))

\* a date is the candidate of an earlier pattern and the plan number of a
\* later pattern is returned
C27_Witness ==
    /\ Applied("_extract_plan_number")
    /\ ret # None
    /\ LET Passed(cands) ==
               \E k \in 1..Len(cands) :
                   /\ cands[k] # None
                   /\ DateFormat(cands[k])
                   /\ \A j \in 1..(k - 1) : cands[j] = None
                   /\ \E j \in (k + 1)..Len(cands) : cands[j] = ret
       IN  Passed(PlanCandidates(applied.arg))

\* what the page loop has recorded once it has completed pages 0..k-1
RECURSIVE RecordedBefore(_)
RecordedBefore(k) ==
    IF k = 0 THEN [plots |-> <<>>, score |-> 0, taba |-> None, purpose |-> None]
    ELSE LET Page(r, best, plan, purpose) ==
                 [plots |-> best.plots,
                  score |-> best.score,
                  taba |-> IF r.taba = None /\ Truthy(plan) THEN plan ELSE r.taba,
                  purpose |-> IF r.purpose = None /\ Truthy(purpose) THEN purpose
                              ELSE r.purpose]
             Step(r, text) ==
                 Page(r,
                      BestPlots(Pdf.pages[k].tables, 1,
                                [plots |-> r.plots, score |-> r.score]),
                      _extract_plan_number(text),
                      _extract_purpose(text))
         IN  Step(RecordedBefore(k - 1), TextOrEmpty(Pdf, k - 1))

\* the pages the loop had completed when the library raised: none when the
\* file did not open or the quick check of the first two pages raised
PagesRecorded ==
    IF QuickCheckRead /\ fault.op \in {"text", "tables"} THEN fault.page ELSE 0

(* C28: when a page operation raises during extract, the returned result     *)
(* holds the plots, the plan number and the purpose recorded from the pages  *)
(* completed before the failure, together with the error entry; the failure  *)
(* clears nothing already recorded.                                          *)
C28_PartialSurvives ==
    (Returned /\ IsExtract /\ LibraryFailure) =>
        /\ DescribesFailure
        /\ result.plots = RecordedBefore(PagesRecorded).plots
        /\ result.taba = RecordedBefore(PagesRecorded).taba
        /\ result.purpose = RecordedBefore(PagesRecorded).purpose

\* the second page raises after the first gave plots, a plan number and a
\* purpose
C28_Witness ==
    /\ Returned /\ IsExtract
    /\ LibraryFailure
    /\ fault.page = 1
    /\ result.plots # <<>>
    /\ result.taba # None
    /\ result.purpose # None
    /\ DescribesFailure

(* C29: in every result extract_building_rights returns, success is true     *)
(* exactly when rows is non-empty and exactly when errors is empty; when     *)
(* success is false, rows, raw_headers and column_map are all empty, also    *)
(* when the headers of a table were merged and mapped during the attempt.    *)
C29_SuccessRowsErrors ==
    (Returned /\ IsRights) =>
        /\ result.success <=> result.rows # <<>>
        /\ result.success <=> result.errors = <<>>
        /\ ~result.success =>
               /\ result.rows = <<>>
               /\ result.raw_headers = <<>>
               /\ result.column_map = EmptyDict

\* a table whose headers were merged and mapped gave no row, and the call
\* returned without success
C29_Witness ==
    /\ Returned /\ IsRights
    /\ ~result.success
    /\ \E i \in 1..Len(outcomes) : outcomes[i] = "no_rows"
    /\ result.raw_headers = <<>>
    /\ result.column_map = EmptyDict
    /\ result.errors # <<>>

\* the non-empty cells of a row that _parse_numeric turns into a number
ParseableCells(row) == {i \in NonEmptyCells(row) : _parse_numeric(row[i]) # None}

(* C30: _is_header_row and _parse_numeric agree on what is numeric: the       *)
(* classifier counts a non-empty cell as numeric exactly when _parse_numeric *)
(* returns a number for it, so at least 30% of the non-empty cells of a row  *)
(* classified as data can be parsed to a number.                             *)
C30_ClassifierAgreesWithParser ==
    /\ (Applied("_parse_numeric") /\ NonEmptyCells(<<applied.arg>>) # {}) =>
           (NumericCells(<<applied.arg>>) # {} <=> ret # None)
    /\ (Applied("_is_header_row") /\ ~ret) =>
           10 * Cardinality(ParseableCells(applied.arg))
               >= 3 * Cardinality(NonEmptyCells(applied.arg))

====
